---- MODULE Spec2Model ----
(***************************************************************************)
(* Authentication / session core of the fireart server:                    *)
(*   AuthService (signup, login, refreshToken, logout),                    *)
(*   JwtService  (generateAccessToken, generateRefreshToken, ...),         *)
(*   DatabaseService.query and the tables of initializeTables.             *)
(*                                                                         *)
(* Every handler is an async function; between two awaited store queries   *)
(* any other request may run.  One action of the model is one awaited      *)
(* query of one request together with the synchronous code that follows it *)
(* up to the next await (or the return / throw).  A request is received    *)
(* in the step of its first query.  An answered request leaves inflight;   *)
(* the one answered last is kept in response, and log records which        *)
(* refresh tokens were handed out, exchanged and logged out.               *)
(*                                                                         *)
(* Modelling assumptions:                                                  *)
(*  - strings are sequences of characters over a small alphabet;           *)
(*  - time is counted in seconds, the application and the store read one   *)
(*    clock (new Date() and NOW() agree);                                  *)
(*  - randomBytes(32) never repeats a value: refresh tokens are drawn from *)
(*    a counter, token 0 is a string that was never issued;                *)
(*  - a bcrypt hash is the pair (cost, password); the salt is left out.    *)
(***************************************************************************)
EXTENDS Integers, Sequences, FiniteSets, Bags, TLC

VARIABLES
    users,           \* table users
    users_id_seq,    \* SERIAL sequence of users.id (last value handed out)
    refresh_tokens,  \* table refresh_tokens
    password_reset_tokens,  \* table password_reset_tokens
    tokenSeq,        \* number of values randomBytes has produced
    inflight,        \* the requests received and not yet answered (a bag)
    received,        \* number of requests received so far
    response,        \* the request answered last, with its response
    log,             \* what the clients were told so far (history)
    now,             \* the clock, in seconds
    ticks,           \* number of clock advances taken
    millis,          \* the milliseconds of the clock within its second
    jwts,            \* the access tokens handed out, with their time of issue
    faults,          \* number of store failures injected
    products,        \* table products
    products_id_seq  \* SERIAL sequence of products.id (last value handed out)

vars == <<users, users_id_seq, refresh_tokens, password_reset_tokens, tokenSeq,
          inflight, received, response, log, now, ticks, faults, millis, jwts,
          products, products_id_seq>>

(***************************************************************************)
(* Bounds of the model.                                                    *)
(***************************************************************************)
MaxReqs == 3
MaxTicks == 1
MaxFaults == 1
MaxConcurrent == 2
MaxTokens == 1

(***************************************************************************)
(* Configuration (JwtService fields, AuthService.signup).                  *)
(***************************************************************************)
jwtSecret == "your-secret-key"
jwtExpiresIn == 15 * 60
refreshTokenExpiresIn == 7 * 24 * 60 * 60
saltRounds == 12

(***************************************************************************)
(* Strings.                                                                *)
(***************************************************************************)
Whitespace == {" "}

toLowerCaseChar(c) ==
    CASE c = "A" -> "a"
      [] c = "B" -> "b"
      [] c = "J" -> "j"
      [] OTHER -> c

toLowerCase(s) == [i \in 1..Len(s) |-> toLowerCaseChar(s[i])]

RECURSIVE trimStart(_)
trimStart(s) ==
    IF s # <<>> /\ Head(s) \in Whitespace THEN trimStart(Tail(s)) ELSE s

RECURSIVE trimEnd(_)
trimEnd(s) ==
    IF s # <<>> /\ s[Len(s)] \in Whitespace
    THEN trimEnd(SubSeq(s, 1, Len(s) - 1))
    ELSE s

trim(s) == trimEnd(trimStart(s))

\* email.trim().toLowerCase()
NormalizeEmail(email) == toLowerCase(trim(email))

\* Number.prototype.toString(): decimal digits, most significant first
Digit(d) == CASE d = 0 -> "0" [] d = 1 -> "1" [] d = 2 -> "2" [] d = 3 -> "3"
              [] d = 4 -> "4" [] d = 5 -> "5" [] d = 6 -> "6" [] d = 7 -> "7"
              [] d = 8 -> "8" [] d = 9 -> "9"

RECURSIVE toString(_)
toString(n) ==
    IF n < 10 THEN <<Digit(n)>> ELSE Append(toString(n \div 10), Digit(n % 10))

DigitValue(c) == CASE c = "0" -> 0 [] c = "1" -> 1 [] c = "2" -> 2 [] c = "3" -> 3
                   [] c = "4" -> 4 [] c = "5" -> 5 [] c = "6" -> 6 [] c = "7" -> 7
                   [] c = "8" -> 8 [] c = "9" -> 9 [] OTHER -> -1

\* parseInt(s, 10) of a string without sign: leading blanks are skipped, the
\* result is the value of the longest prefix of digits, NaN (here -1) when
\* that prefix is empty
RECURSIVE parseIntFrom(_, _)
parseIntFrom(s, acc) ==
    IF s = <<>> \/ DigitValue(Head(s)) < 0
    THEN acc
    ELSE parseIntFrom(Tail(s), 10 * acc + DigitValue(Head(s)))

NaN == -1

parseInt(s) ==
    LET t == trimStart(s)
    IN IF t = <<>> \/ DigitValue(Head(t)) < 0 THEN NaN ELSE parseIntFrom(t, 0)

(***************************************************************************)
(* Optional values (a DTO field marked @IsOptional may be undefined).      *)
(***************************************************************************)
Undefined == [defined |-> FALSE, value |-> <<>>]
Some(s) == [defined |-> TRUE, value |-> s]

(***************************************************************************)
(* bcrypt.                                                                 *)
(***************************************************************************)
bcryptHash(password, rounds) == [alg |-> "bcrypt", cost |-> rounds, of |-> password]
\* a comparison that accepts every password (mutation of bcryptCompare)
bcryptCompareAlways(password, hash) == TRUE

bcryptCompare(password, hash) == hash.alg = "bcrypt" /\ hash.of = password

(***************************************************************************)
(* Inputs of the requests.                                                 *)
(***************************************************************************)
SignupDto(email, password, firstName) ==
    [email |-> email, password |-> password, firstName |-> firstName]

LoginDto(email, password) == [email |-> email, password |-> password]

SignupInputs ==
    { SignupDto(<<"a">>, "secret1", Some(<<"J", " ">>)),
      SignupDto(<<" ", "A", " ">>, "secret1", Some(<<"J">>)),
      SignupDto(<<"b">>, "secret2", Some(<<"J">>)),
      SignupDto(<<"b">>, "secret2", Undefined) }

LoginInputs ==
    { LoginDto(<<"a">>, "secret1"),
      LoginDto(<<"A", " ">>, "secret1"),
      LoginDto(<<"a">>, "secret2"),
      LoginDto(<<"b">>, "secret2") }
\* a refresh token string a client may present: one it was handed in a
\* response, or a string that was never issued (0)
TokenInputs == {0} \cup { e.token : e \in { x \in log : x.event = "issued" } }

(***************************************************************************)
(* Access tokens (jsonwebtoken): the claims of the payload and the key the *)
(* signature was made with.                                                *)
(***************************************************************************)
NoJwt == [sub |-> <<>>, type |-> "", iat |-> 0, exp |-> 0, key |-> ""]

\* jwt.sign(payload, secret, {expiresIn})
jwtSign(payload, secret, expiresIn) ==
    [sub |-> payload.sub, type |-> payload.type,
     iat |-> now, exp |-> now + expiresIn, key |-> secret]

\* JwtService.generateAccessToken
generateAccessToken(userId) ==
    jwtSign([sub |-> toString(userId), type |-> "access"], jwtSecret, jwtExpiresIn)

\* JwtService.verifyRefreshToken: the payload it returns is never null
verifyRefreshToken(token) == TRUE

(***************************************************************************)
(* The store: the statements the handlers send through                     *)
(* DatabaseService.query, each executed atomically.                        *)
(***************************************************************************)
\* SELECT ... FROM users WHERE email = $1
SelectUsersByEmail(email) == { u \in users : u.email = email }

\* table users without UNIQUE (email) (mutation of UsersEmailUniqueViolation)
NoUniqueConstraint(email) == FALSE

\* UNIQUE (email) of table users rejects the insert
UsersEmailUniqueViolation(email) == \E u \in users : u.email = email

\* the row of INSERT INTO users (...) VALUES ($1, $2, $3, $4)
UserRow(email, passwordHash, firstName) ==
    [id |-> users_id_seq + 1, email |-> email,
     password_hash |-> passwordHash, first_name |-> firstName]

\* the SELECT with expires_at >= NOW() (mutation of SelectLiveRefreshTokens)
SelectRefreshTokensNotBefore(token) ==
    { row \in refresh_tokens : row.token = token /\ row.expires_at >= now }

\* SELECT user_id FROM refresh_tokens WHERE token = $1 AND expires_at > NOW()
SelectLiveRefreshTokens(token) ==
    { row \in refresh_tokens : row.token = token /\ row.expires_at > now }

\* the DELETE taking every row of the user of the token (mutation of
\* RefreshTokensWithToken)
RefreshTokensOfOwner(token) ==
    { row \in refresh_tokens :
        \E presented \in refresh_tokens :
            presented.token = token /\ presented.user_id = row.user_id }

\* the rows of DELETE FROM refresh_tokens WHERE token = $1
RefreshTokensWithToken(token) == { row \in refresh_tokens : row.token = token }

\* the INSERT with $2 bound to user_id as well (mutation of RefreshTokenRow)
RefreshTokenRowWrongOwner(userId, token, expiresAt) ==
    [user_id |-> token, token |-> token, expires_at |-> expiresAt]

\* the row of INSERT INTO refresh_tokens (user_id, token, expires_at)
RefreshTokenRow(userId, token, expiresAt) ==
    [user_id |-> userId, token |-> token, expires_at |-> expiresAt]

(***************************************************************************)
(* Responses.                                                              *)
(***************************************************************************)
NoUser == [id |-> 0, email |-> <<>>, firstName |-> Undefined]

Response(error, message, user, accessToken, refreshToken) ==
    [error |-> error, message |-> message, user |-> user,
     accessToken |-> accessToken, refreshToken |-> refreshToken]

Pending == Response("pending", "", NoUser, NoJwt, 0)

Message(message) == Response("", message, NoUser, NoJwt, 0)

ConflictException(message) == Response("ConflictException", message, NoUser, NoJwt, 0)
UnauthorizedException(message) == Response("UnauthorizedException", message, NoUser, NoJwt, 0)
BadRequestException(message) == Response("BadRequestException", message, NoUser, NoJwt, 0)

(***************************************************************************)
(* History: what the clients were told about refresh tokens.               *)
(*   issued     token was returned by signup, login or refreshToken, for   *)
(*              user userId, its row expiring at expiresAt                 *)
(*   rotated    refreshToken(token) returned newToken                      *)
(*   loggedOut  logout(token) returned after its DELETE was executed       *)
(*   swallowed  logout(token) returned after its DELETE had failed         *)
(***************************************************************************)
Event(event, token, userId, expiresAt, newToken) ==
    [event |-> event, token |-> token, userId |-> userId,
     expiresAt |-> expiresAt, newToken |-> newToken]

Issued(token, userId, expiresAt) == Event("issued", token, userId, expiresAt, 0)
Rotated(token, newToken) == Event("rotated", token, 0, 0, newToken)
LoggedOut(token) == Event("loggedOut", token, 0, 0, 0)
Swallowed(token) == Event("swallowed", token, 0, 0, 0)

EventsOf(token) == { e \in log : e.token = token }

(***************************************************************************)
(* Requests.  at is the time the request was received and before the       *)
(* kinds of events its token had met by then.                              *)
(***************************************************************************)
Request(op, email, password, firstName, token) ==
    [op |-> op, pc |-> "received",
     email |-> email, password |-> password, firstName |-> firstName,
     token |-> token,
     user |-> NoUser, accessToken |-> NoJwt, refreshToken |-> 0, expiresAt |-> 0,
     rowCount |-> 0, result |-> Pending,
     at |-> now, before |-> { e.event : e \in EventsOf(token) }]

NoRequest ==
    [op |-> "none", pc |-> "done",
     email |-> <<>>, password |-> "", firstName |-> Undefined, token |-> 0,
     user |-> NoUser, accessToken |-> NoJwt, refreshToken |-> 0, expiresAt |-> 0,
     rowCount |-> 0, result |-> Pending, at |-> 0, before |-> {}]

CanReceive == received < MaxReqs

\* the requests in flight without the request q
Without(q) ==
    IF BagIn(q, inflight) THEN inflight (-) SetToBag({q}) ELSE inflight

\* the handler returns or throws: the request q, changed to q2 by the step,
\* is answered with result
Answer(q, q2, result, events) ==
    /\ response' = [q2 EXCEPT !.pc = "done", !.result = result]
    /\ inflight' = Without(q)
    /\ log' = log \cup events

\* the handler awaits its next query at pc, its locals now those of q2
Await(q, q2, pc) ==
    /\ inflight' = Without(q) (+) SetToBag({[q2 EXCEPT !.pc = pc]})
    /\ UNCHANGED <<response, log>>

Requests == BagToSet(inflight)

Init ==
    /\ users = {}
    /\ users_id_seq = 0
    /\ refresh_tokens = {}
    /\ password_reset_tokens = {}
    /\ tokenSeq = 0
    /\ inflight = EmptyBag
    /\ received = 0
    /\ response = NoRequest
    /\ log = {}
    /\ now = 0
    /\ ticks = 0
    /\ faults = 0
    /\ millis = 0
    /\ jwts = {}
    /\ products = {}
    /\ products_id_seq = 0

\* JwtService.generateAccessToken(user.id) followed by the locals of
\* JwtService.generateRefreshToken(user.id) up to its INSERT
WithNewTokens(q, user) ==
    [q EXCEPT !.user = user,
              !.accessToken = generateAccessToken(user.id),
              !.refreshToken = tokenSeq + 1,
              !.expiresAt = now + refreshTokenExpiresIn]

\* the INSERT of JwtService.generateRefreshToken
InsertRefreshToken(q) ==
    refresh_tokens' = refresh_tokens \cup
        {RefreshTokenRow(q.user.id, q.refreshToken, q.expiresAt)}

UserOf(row) == [id |-> row.id, email |-> row.email, firstName |-> row.first_name]

(***************************************************************************)
(* AuthService.signup                                                      *)
(***************************************************************************)
SignupFailure == BadRequestException("Failed to create user account. Please try again.")

\* the pre-check SELECT, and the ConflictException when it finds a row
SignupSelect(email, password, firstName) ==
    /\ CanReceive
    /\ received' = received + 1
    /\ LET q == Request("signup", email, password, firstName, 0)
           existingUser == SelectUsersByEmail(NormalizeEmail(email))
       IN IF existingUser # {}
          THEN Answer(q, q, ConflictException("User with this email already exists"), {})
          ELSE Await(q, q, "insert")
    /\ UNCHANGED <<password_reset_tokens, users, users_id_seq, refresh_tokens,
                   tokenSeq, now, ticks, faults, millis, jwts, products, products_id_seq>>

\* bcrypt.hash, the INSERT INTO users and the code up to the INSERT of the
\* refresh token.  firstName.trim() throws a TypeError when firstName is
\* undefined; a rejected insert still consumes a value of the id sequence.
SignupInsert(q) ==
    /\ q.op = "signup" /\ q.pc = "insert"
    /\ LET email == NormalizeEmail(q.email)
           passwordHash == bcryptHash(q.password, saltRounds)
       IN IF ~q.firstName.defined
          THEN /\ Answer(q, q, SignupFailure, {})
               /\ UNCHANGED <<users, users_id_seq, tokenSeq>>
          ELSE IF UsersEmailUniqueViolation(email)
          THEN /\ users_id_seq' = users_id_seq + 1
               /\ Answer(q, q, SignupFailure, {})
               /\ UNCHANGED <<users, tokenSeq>>
          ELSE LET row == UserRow(email, passwordHash, Some(trim(q.firstName.value)))
               IN /\ users' = users \cup {row}
                  /\ users_id_seq' = row.id
                  /\ tokenSeq' = tokenSeq + 1
                  /\ Await(q, WithNewTokens(q, UserOf(row)), "token")
    /\ UNCHANGED <<password_reset_tokens, refresh_tokens, received, now, ticks,
                   faults, millis, jwts, products, products_id_seq>>

\* the INSERT of generateRefreshToken and the return of signup
SignupToken(q) ==
    /\ q.op = "signup" /\ q.pc = "token"
    /\ InsertRefreshToken(q)
    /\ Answer(q, q, Response("", "", q.user, q.accessToken, q.refreshToken),
              {Issued(q.refreshToken, q.user.id, q.expiresAt)})
    /\ UNCHANGED <<password_reset_tokens, users, users_id_seq, tokenSeq,
                   received, now, ticks, faults, millis, jwts, products, products_id_seq>>

(***************************************************************************)
(* AuthService.login                                                       *)
(***************************************************************************)
LoginFailure == BadRequestException("Failed to authenticate user. Please try again.")

\* the SELECT of the user, bcrypt.compare and the code up to the INSERT of
\* the refresh token
LoginSelect(email, password) ==
    /\ CanReceive
    /\ received' = received + 1
    /\ LET q == Request("login", email, password, Undefined, 0)
           rows == SelectUsersByEmail(NormalizeEmail(email))
       IN IF rows = {}
          THEN /\ Answer(q, q, UnauthorizedException("Invalid credentials"), {})
               /\ UNCHANGED tokenSeq
          ELSE LET row == CHOOSE u \in rows : TRUE
               IN IF ~bcryptCompare(password, row.password_hash)
                  THEN /\ Answer(q, q, UnauthorizedException("Invalid credentials"), {})
                       /\ UNCHANGED tokenSeq
                  ELSE /\ tokenSeq' = tokenSeq + 1
                       /\ Await(q, WithNewTokens(q, UserOf(row)), "token")
    /\ UNCHANGED <<password_reset_tokens, users, users_id_seq, refresh_tokens,
                   now, ticks, faults, millis, jwts, products, products_id_seq>>

\* the INSERT of generateRefreshToken and the return of login
LoginToken(q) ==
    /\ q.op = "login" /\ q.pc = "token"
    /\ InsertRefreshToken(q)
    /\ Answer(q, q, Response("", "", q.user, q.accessToken, q.refreshToken),
              {Issued(q.refreshToken, q.user.id, q.expiresAt)})
    /\ UNCHANGED <<password_reset_tokens, users, users_id_seq, tokenSeq,
                   received, now, ticks, faults, millis, jwts, products, products_id_seq>>

(***************************************************************************)
(* AuthService.refreshToken                                                *)
(***************************************************************************)
RefreshFailure == BadRequestException("Failed to refresh token. Please try again.")

\* verifyRefreshToken, the SELECT of the presented token and the code up to
\* the INSERT of the new refresh token
RefreshSelect(token) ==
    /\ CanReceive
    /\ received' = received + 1
    /\ LET q == Request("refresh", <<>>, "", Undefined, token)
           rows == SelectLiveRefreshTokens(token)
       IN IF ~verifyRefreshToken(token)
          THEN /\ Answer(q, q, UnauthorizedException("Invalid refresh token"), {})
               /\ UNCHANGED tokenSeq
          ELSE IF rows = {}
          THEN /\ Answer(q, q, UnauthorizedException("Invalid or expired refresh token"), {})
               /\ UNCHANGED tokenSeq
          ELSE LET row == CHOOSE x \in rows : TRUE
               IN /\ tokenSeq' = tokenSeq + 1
                  /\ Await(q, WithNewTokens(q, [NoUser EXCEPT !.id = row.user_id]), "insert")
    /\ UNCHANGED <<password_reset_tokens, users, users_id_seq, refresh_tokens,
                   now, ticks, faults, millis, jwts, products, products_id_seq>>

\* the INSERT of generateRefreshToken
RefreshInsert(q) ==
    /\ q.op = "refresh" /\ q.pc = "insert"
    /\ InsertRefreshToken(q)
    /\ Await(q, q, "delete")
    /\ UNCHANGED <<password_reset_tokens, users, users_id_seq, tokenSeq,
                   received, now, ticks, faults, millis, jwts, products, products_id_seq>>

\* refreshToken returning without its DELETE (mutation of RefreshDelete)
RefreshDeleteKeepsRow(q) ==
    /\ q.op = "refresh" /\ q.pc = "delete"
    /\ Answer(q, q, Response("", "", NoUser, q.accessToken, q.refreshToken),
              {Issued(q.refreshToken, parseInt(q.accessToken.sub), q.expiresAt),
               Rotated(q.token, q.refreshToken)})
    /\ UNCHANGED <<password_reset_tokens, users, users_id_seq, refresh_tokens,
                   tokenSeq, received, now, ticks, faults, millis, jwts, products, products_id_seq>>

\* the DELETE of the presented token and the return of refreshToken
RefreshDelete(q) ==
    /\ q.op = "refresh" /\ q.pc = "delete"
    /\ refresh_tokens' = refresh_tokens \ RefreshTokensWithToken(q.token)
    /\ Answer(q, [q EXCEPT !.rowCount = Cardinality(RefreshTokensWithToken(q.token))],
              Response("", "", NoUser, q.accessToken, q.refreshToken),
              {Issued(q.refreshToken, parseInt(q.accessToken.sub), q.expiresAt),
               Rotated(q.token, q.refreshToken)})
    /\ UNCHANGED <<password_reset_tokens, users, users_id_seq, tokenSeq,
                   received, now, ticks, faults, millis, jwts, products, products_id_seq>>

(***************************************************************************)
(* AuthService.logout                                                      *)
(***************************************************************************)
LogoutMessage == Message("Logged out successfully")

\* logout answering without its DELETE (mutation of Logout)
LogoutKeepsRow(token) ==
    /\ CanReceive
    /\ received' = received + 1
    /\ LET q == Request("logout", <<>>, "", Undefined, token)
       IN Answer(q, q, LogoutMessage, {LoggedOut(token)})
    /\ UNCHANGED <<password_reset_tokens, users, users_id_seq, refresh_tokens,
                   tokenSeq, now, ticks, faults, millis, jwts, products, products_id_seq>>

\* the DELETE of the presented token; the message is returned also from
\* the catch block (see HandlerCatch)
Logout(token) ==
    /\ CanReceive
    /\ received' = received + 1
    /\ refresh_tokens' = refresh_tokens \ RefreshTokensWithToken(token)
    /\ LET q == Request("logout", <<>>, "", Undefined, token)
       IN Answer(q, [q EXCEPT !.rowCount = Cardinality(RefreshTokensWithToken(token))],
                 LogoutMessage, {LoggedOut(token)})
    /\ UNCHANGED <<password_reset_tokens, users, users_id_seq, tokenSeq, now,
                   ticks, faults, millis, jwts, products, products_id_seq>>

(***************************************************************************)
(* The clock.                                                              *)
(***************************************************************************)
TickSteps == {refreshTokenExpiresIn}

Tick(d) ==
    /\ ticks < MaxTicks
    /\ now' = now + d
    /\ ticks' = ticks + 1
    /\ UNCHANGED <<password_reset_tokens, users, users_id_seq, refresh_tokens,
                   tokenSeq, inflight, received, response, log, faults, millis,
                   jwts, products, products_id_seq>>

Handlers ==
    \/ \E dto \in SignupInputs : SignupSelect(dto.email, dto.password, dto.firstName)
    \/ \E q \in Requests : SignupInsert(q)
    \/ \E q \in Requests : SignupToken(q)
    \/ \E dto \in LoginInputs : LoginSelect(dto.email, dto.password)
    \/ \E q \in Requests : LoginToken(q)
    \/ \E t \in TokenInputs : RefreshSelect(t)
    \/ \E q \in Requests : RefreshInsert(q)
    \/ \E q \in Requests : RefreshDelete(q)
    \/ \E t \in TokenInputs : Logout(t)

Next ==
    \/ Handlers
    \/ \E d \in TickSteps : Tick(d)

Spec == Init /\ [][Next]_vars

(***************************************************************************)
(* Password reset: AuthService.requestPasswordReset,                       *)
(* validatePasswordResetToken and confirmPasswordReset over the table      *)
(* password_reset_tokens (token UNIQUE, UNIQUE (user_id)).  In a request   *)
(* of requestPasswordReset the field refreshToken holds the local          *)
(* resetToken, the value randomBytes(32) gave the handler; in a request of *)
(* confirmPasswordReset the field password holds newPassword.              *)
(*   mailed     the link with the reset token was handed to the mailer     *)
(*   confirmed  confirmPasswordReset(token, ...) returned its message      *)
(***************************************************************************)
\* expiresAt.setHours(expiresAt.getHours() + 1), in seconds
resetTokenExpiresIn == 60 * 60

ResetRequested == Message("If the email exists, a password reset link has been sent")
PasswordReset == Message("Password reset successfully")
ConfirmFailure == BadRequestException("Failed to reset password. Please try again.")

\* the result of validatePasswordResetToken: { valid, message? }
Validation(valid, message) == [valid |-> valid, message |-> message]

Valid == Validation(TRUE, Undefined)
InvalidResetToken == Validation(FALSE, Some("Invalid reset token"))
ResetTokenExpired == Validation(FALSE, Some("Reset token has expired"))
ValidationError == Validation(FALSE, Some("Error validating token"))

Mailed(token, userId, expiresAt) == Event("mailed", token, userId, expiresAt, 0)
Confirmed(token, userId) == Event("confirmed", token, userId, 0, 0)

PasswordResetDto(email) == [email |-> email]
PasswordResetConfirmDto(token, newPassword) == [token |-> token, newPassword |-> newPassword]

PasswordResetInputs ==
    { PasswordResetDto(<<"A", " ">>), PasswordResetDto(<<"b">>),
      PasswordResetDto(<<"c">>) }

\* a reset token string a client may present: one it was mailed, or a
\* string that was never issued (0)
ResetTokenInputs == {0} \cup { e.token : e \in { x \in log : x.event = "mailed" } }

NewPasswordInputs == {"secret2", "secret3"}

\* the row of INSERT INTO password_reset_tokens (user_id, token, expires_at)
PasswordResetTokenRow(userId, token, expiresAt) ==
    [user_id |-> userId, token |-> token, expires_at |-> expiresAt]

\* SELECT ... FROM password_reset_tokens WHERE token = $1
SelectPasswordResetTokens(token) ==
    { row \in password_reset_tokens : row.token = token }

\* the rows of DELETE FROM password_reset_tokens WHERE expires_at < NOW()
ExpiredPasswordResetTokens ==
    { row \in password_reset_tokens : row.expires_at < now }

\* the INSERT without ON CONFLICT (user_id), on a table without
\* UNIQUE (user_id) (mutation of UpsertPasswordResetToken)
InsertPasswordResetToken(row) == password_reset_tokens \cup {row}

\* INSERT ... ON CONFLICT (user_id) DO UPDATE SET token = $2, expires_at = $3
UpsertPasswordResetToken(row) ==
    { r \in password_reset_tokens : r.user_id # row.user_id } \cup {row}

\* expiresAt <= new Date() (mutation of HasExpired)
HasExpiredAtExpiry(row) == row.expires_at <= now

\* expiresAt < new Date() of validatePasswordResetToken
HasExpired(row) == row.expires_at < now

\* validatePasswordResetToken up to its DELETE: what its SELECT and the
\* comparison of the expiry decide
validatePasswordResetToken(token) ==
    LET rows == SelectPasswordResetTokens(token)
    IN IF rows = {} THEN InvalidResetToken
       ELSE IF HasExpired(CHOOSE row \in rows : TRUE) THEN ResetTokenExpired
       ELSE Valid

(***************************************************************************)
(* AuthService.requestPasswordReset                                        *)
(***************************************************************************)
\* a password reset request is received while fewer than MaxConcurrent
\* requests are in flight
CanReceiveReset == CanReceive /\ BagCardinality(inflight) < MaxConcurrent

\* the SELECT of the user, and the generic message when there is none
RequestResetSelect(email) ==
    /\ CanReceiveReset
    /\ received' = received + 1
    /\ LET q == Request("requestReset", email, "", Undefined, 0)
           rows == SelectUsersByEmail(NormalizeEmail(email))
       IN IF rows = {}
          THEN Answer(q, q, ResetRequested, {})
          ELSE LET row == CHOOSE u \in rows : TRUE
               IN Await(q, [q EXCEPT !.user = [NoUser EXCEPT !.id = row.id]], "cleanup")
    /\ UNCHANGED <<users, users_id_seq, refresh_tokens, password_reset_tokens,
                   tokenSeq, now, ticks, faults, millis, jwts, products, products_id_seq>>

\* cleanupExpiredPasswordResetTokens, then randomBytes and the expiry
RequestResetCleanup(q) ==
    /\ q.op = "requestReset" /\ q.pc = "cleanup"
    /\ password_reset_tokens' = password_reset_tokens \ ExpiredPasswordResetTokens
    /\ tokenSeq' = tokenSeq + 1
    /\ Await(q, [q EXCEPT !.refreshToken = tokenSeq + 1,
                          !.expiresAt = now + resetTokenExpiresIn], "insert")
    /\ UNCHANGED <<users, users_id_seq, refresh_tokens, received, now, ticks,
                   faults, millis, jwts, products, products_id_seq>>

\* the INSERT ... ON CONFLICT (user_id) DO UPDATE
RequestResetInsert(q) ==
    /\ q.op = "requestReset" /\ q.pc = "insert"
    /\ password_reset_tokens' =
          UpsertPasswordResetToken(
              PasswordResetTokenRow(q.user.id, q.refreshToken, q.expiresAt))
    /\ Await(q, q, "mail")
    /\ UNCHANGED <<users, users_id_seq, refresh_tokens, tokenSeq, received,
                   now, ticks, faults, millis, jwts, products, products_id_seq>>

\* fakeSendPasswordResetEmail and the return of requestPasswordReset
RequestResetMail(q) ==
    /\ q.op = "requestReset" /\ q.pc = "mail"
    /\ Answer(q, q, ResetRequested, {Mailed(q.refreshToken, q.user.id, q.expiresAt)})
    /\ UNCHANGED <<users, users_id_seq, refresh_tokens, password_reset_tokens,
                   tokenSeq, received, now, ticks, faults, millis, jwts, products, products_id_seq>>

(***************************************************************************)
(* AuthService.validatePasswordResetToken (GET password-reset/validate)    *)
(***************************************************************************)
\* the SELECT of the token and the comparison of its expiry
ValidateSelect(token) ==
    /\ CanReceiveReset
    /\ received' = received + 1
    /\ LET q == Request("validate", <<>>, "", Undefined, token)
           validation == validatePasswordResetToken(token)
       IN IF validation = ResetTokenExpired
          THEN Await(q, q, "delete")
          ELSE Answer(q, q, validation, {})
    /\ UNCHANGED <<users, users_id_seq, refresh_tokens,
                   password_reset_tokens, tokenSeq, now, ticks, faults,
                   millis, jwts, products, products_id_seq>>

\* the DELETE of the expired token
ValidateDelete(q) ==
    /\ q.op = "validate" /\ q.pc = "delete"
    /\ password_reset_tokens' = password_reset_tokens \ SelectPasswordResetTokens(q.token)
    /\ Answer(q, q, ResetTokenExpired, {})
    /\ UNCHANGED <<users, users_id_seq, refresh_tokens, tokenSeq, received,
                   now, ticks, faults, millis, jwts, products, products_id_seq>>

(***************************************************************************)
(* AuthService.confirmPasswordReset                                        *)
(***************************************************************************)
\* a BadRequestException that drops the reason of the validation (mutation
\* of ValidationFailure)
ValidationFailureWithoutReason(validation) ==
    BadRequestException("Invalid or expired reset token")

\* new BadRequestException(tokenValidation.message || '...')
ValidationFailure(validation) ==
    BadRequestException(IF validation.message.defined
                        THEN validation.message.value
                        ELSE "Invalid or expired reset token")

\* the SELECT of validatePasswordResetToken
ConfirmValidate(token, newPassword) ==
    /\ CanReceiveReset
    /\ received' = received + 1
    /\ LET q == Request("confirm", <<>>, newPassword, Undefined, token)
           tokenValidation == validatePasswordResetToken(token)
       IN IF tokenValidation = ResetTokenExpired
          THEN Await(q, q, "expired")
          ELSE IF ~tokenValidation.valid
          THEN Answer(q, q, ValidationFailure(tokenValidation), {})
          ELSE Await(q, q, "select")
    /\ UNCHANGED <<users, users_id_seq, refresh_tokens, password_reset_tokens,
                   tokenSeq, now, ticks, faults, millis, jwts, products, products_id_seq>>

\* the DELETE of validatePasswordResetToken, and the BadRequestException
ConfirmValidateDelete(q) ==
    /\ q.op = "confirm" /\ q.pc = "expired"
    /\ password_reset_tokens' = password_reset_tokens \ SelectPasswordResetTokens(q.token)
    /\ Answer(q, q, ValidationFailure(ResetTokenExpired), {})
    /\ UNCHANGED <<users, users_id_seq, refresh_tokens, tokenSeq, received,
                   now, ticks, faults, millis, jwts, products, products_id_seq>>

\* the second SELECT of the token; result.rows[0].user_id throws a TypeError
\* when the row is gone.  bcrypt.hash follows.
ConfirmSelect(q) ==
    /\ q.op = "confirm" /\ q.pc = "select"
    /\ LET rows == SelectPasswordResetTokens(q.token)
       IN IF rows = {}
          THEN Answer(q, q, ConfirmFailure, {})
          ELSE LET row == CHOOSE r \in rows : TRUE
               IN Await(q, [q EXCEPT !.user = [NoUser EXCEPT !.id = row.user_id]], "update")
    /\ UNCHANGED <<users, users_id_seq, refresh_tokens, password_reset_tokens,
                   tokenSeq, received, now, ticks, faults, millis, jwts, products, products_id_seq>>

\* the UPDATE without its WHERE clause (mutation of UpdatePasswordHash)
UpdatePasswordHashOfAll(userId, newPasswordHash) ==
    { [u EXCEPT !.password_hash = newPasswordHash] : u \in users }

\* the rows of UPDATE users SET password_hash = $1, ... WHERE id = $2
UpdatePasswordHash(userId, newPasswordHash) ==
    { IF u.id = userId THEN [u EXCEPT !.password_hash = newPasswordHash] ELSE u :
      u \in users }

\* the UPDATE of the user
ConfirmUpdate(q) ==
    /\ q.op = "confirm" /\ q.pc = "update"
    /\ users' = UpdatePasswordHash(q.user.id, bcryptHash(q.password, saltRounds))
    /\ Await(q, q, "delete")
    /\ UNCHANGED <<users_id_seq, refresh_tokens, password_reset_tokens,
                   tokenSeq, received, now, ticks, faults, millis, jwts, products, products_id_seq>>

\* confirmPasswordReset returning without its DELETE (mutation of
\* ConfirmDelete)
ConfirmDeleteKeepsRow(q) ==
    /\ q.op = "confirm" /\ q.pc = "delete"
    /\ Answer(q, q, PasswordReset, {Confirmed(q.token, q.user.id)})
    /\ UNCHANGED <<users, users_id_seq, refresh_tokens, password_reset_tokens,
                   tokenSeq, received, now, ticks, faults, millis, jwts, products, products_id_seq>>

\* the DELETE of the used token and the return of confirmPasswordReset
ConfirmDelete(q) ==
    /\ q.op = "confirm" /\ q.pc = "delete"
    /\ password_reset_tokens' = password_reset_tokens \ SelectPasswordResetTokens(q.token)
    /\ Answer(q, q, PasswordReset, {Confirmed(q.token, q.user.id)})
    /\ UNCHANGED <<users, users_id_seq, refresh_tokens, tokenSeq, received,
                   now, ticks, faults, millis, jwts, products, products_id_seq>>

(***************************************************************************)
(* The password reset flows, over a store in which two users have signed   *)
(* up and reset tokens are outstanding: signup(a, secret1, J) and          *)
(* signup(b, secret2, J) have returned, and each row of rows is the token  *)
(* of a requestPasswordReset that was answered, its link mailed.           *)
(***************************************************************************)
RegisteredUser(id, email, password) ==
    [id |-> id, email |-> NormalizeEmail(email),
     password_hash |-> bcryptHash(password, saltRounds),
     first_name |-> Some(<<"J">>)]

ResetInitWith(time, rows) ==
    /\ users = { RegisteredUser(1, <<"a">>, "secret1"),
                 RegisteredUser(2, <<"b">>, "secret2") }
    /\ users_id_seq = 2
    /\ refresh_tokens = {}
    /\ password_reset_tokens = rows
    /\ tokenSeq = Cardinality(rows)
    /\ inflight = EmptyBag
    /\ received = 0
    /\ response = NoRequest
    /\ log = { Mailed(row.token, row.user_id, row.expires_at) : row \in rows }
    /\ now = time
    /\ ticks = 0
    /\ faults = 0
    /\ millis = 0
    /\ jwts = {}
    /\ products = {}
    /\ products_id_seq = 0

\* requestPasswordReset(b) was answered an hour ago: the clock reads the
\* expiry of its token
ResetInit ==
    ResetInitWith(resetTokenExpiresIn,
                  { PasswordResetTokenRow(2, 1, resetTokenExpiresIn) })

ResetLoginInputs ==
    { LoginDto(<<"a">>, "secret1"), LoginDto(<<"a">>, "secret2") }

\* the clock moves on by a second
ResetTickSteps == {1}

ResetHandlers ==
    \/ \E dto \in PasswordResetInputs : RequestResetSelect(dto.email)
    \/ \E q \in Requests : RequestResetCleanup(q)
    \/ \E q \in Requests : RequestResetInsert(q)
    \/ \E q \in Requests : RequestResetMail(q)
    \/ \E t \in ResetTokenInputs : ValidateSelect(t)
    \/ \E q \in Requests : ValidateDelete(q)
    \/ \E t \in ResetTokenInputs, p \in NewPasswordInputs : ConfirmValidate(t, p)
    \/ \E q \in Requests : ConfirmValidateDelete(q)
    \/ \E q \in Requests : ConfirmSelect(q)
    \/ \E q \in Requests : ConfirmUpdate(q)
    \/ \E q \in Requests : ConfirmDelete(q)

ResetNext ==
    \/ ResetHandlers
    \/ \E d \in ResetTickSteps : Tick(d)

ResetSpec == ResetInit /\ [][ResetNext]_vars

\* the password reset flows and login, at one instant of the clock: the
\* token of b has expired, requestPasswordReset(a) was answered just now
ResetLoginInit ==
    ResetInitWith(resetTokenExpiresIn + 1,
                  { PasswordResetTokenRow(2, 1, resetTokenExpiresIn),
                    PasswordResetTokenRow(1, 2, 2 * resetTokenExpiresIn + 1) })

ResetLoginNext ==
    \/ ResetHandlers
    \/ \E dto \in ResetLoginInputs : LoginSelect(dto.email, dto.password)
    \/ \E q \in Requests : LoginToken(q)

ResetLoginSpec == ResetLoginInit /\ [][ResetLoginNext]_vars

\* the password reset flows and refreshToken, at one instant of the clock:
\* as ResetLoginInit, and each user holds the refresh token of a signup
ResetRefreshInit ==
    /\ users = { RegisteredUser(1, <<"a">>, "secret1"),
                 RegisteredUser(2, <<"b">>, "secret2") }
    /\ users_id_seq = 2
    /\ refresh_tokens = { RefreshTokenRow(1, 3, refreshTokenExpiresIn),
                          RefreshTokenRow(2, 4, refreshTokenExpiresIn) }
    /\ password_reset_tokens =
          { PasswordResetTokenRow(2, 1, resetTokenExpiresIn),
            PasswordResetTokenRow(1, 2, 2 * resetTokenExpiresIn + 1) }
    /\ tokenSeq = 4
    /\ inflight = EmptyBag
    /\ received = 0
    /\ response = NoRequest
    /\ log = { Mailed(row.token, row.user_id, row.expires_at) : row \in password_reset_tokens }
             \cup { Issued(row.token, row.user_id, row.expires_at) : row \in refresh_tokens }
    /\ now = resetTokenExpiresIn + 1
    /\ ticks = 0
    /\ faults = 0
    /\ millis = 0
    /\ jwts = {}
    /\ products = {}
    /\ products_id_seq = 0

ResetRefreshNext ==
    \/ ResetHandlers
    \/ \E t \in TokenInputs : RefreshSelect(t)
    \/ \E q \in Requests : RefreshInsert(q)
    \/ \E q \in Requests : RefreshDelete(q)

ResetRefreshSpec == ResetRefreshInit /\ [][ResetRefreshNext]_vars

(***************************************************************************)
(* Store failures.  DatabaseService.query throws when pool.connect() or    *)
(* the statement fails (connection lost, timeout); the statement then has  *)
(* no effect, and the catch block of the handler decides the response.     *)
(***************************************************************************)
\* logout and requestPasswordReset rethrowing like the other handlers
\* (mutation of HandlerCatch)
HandlerCatchRethrows(q) ==
    CASE q.op = "signup" -> SignupFailure
      [] q.op = "login" -> LoginFailure
      [] q.op = "refresh" -> RefreshFailure
      [] q.op = "logout" -> BadRequestException("Failed to log out. Please try again.")
      [] q.op = "requestReset" ->
            BadRequestException("Failed to request password reset. Please try again.")
      [] q.op = "validate" -> ValidationError
      [] q.op = "confirm" ->
            IF q.pc \in {"received", "expired"}
            THEN ValidationFailure(ValidationError)
            ELSE ConfirmFailure

\* what the catch block of the handler of q answers when an awaited call
\* throws; validatePasswordResetToken catches for itself, also within
\* confirmPasswordReset
HandlerCatch(q) ==
    CASE q.op = "signup" -> SignupFailure
      [] q.op = "login" -> LoginFailure
      [] q.op = "refresh" -> RefreshFailure
      [] q.op = "logout" -> LogoutMessage
      [] q.op = "requestReset" -> ResetRequested
      [] q.op = "validate" -> ValidationError
      [] q.op = "confirm" ->
            IF q.pc \in {"received", "expired"}
            THEN ValidationFailure(ValidationError)
            ELSE ConfirmFailure

CatchEvents(q) ==
    IF q.op = "logout" THEN {Swallowed(q.token)} ELSE {}

Arrivals ==
    { Request("signup", dto.email, dto.password, dto.firstName, 0) : dto \in SignupInputs }
    \cup { Request("login", dto.email, dto.password, Undefined, 0) : dto \in LoginInputs }
    \cup { Request(op, <<>>, "", Undefined, t) : op \in {"refresh", "logout"}, t \in TokenInputs }

\* the first query of a request fails
QueryFailsOnArrival(q) ==
    /\ CanReceive
    /\ faults < MaxFaults
    /\ received' = received + 1
    /\ faults' = faults + 1
    /\ Answer(q, q, HandlerCatch(q), CatchEvents(q))
    /\ UNCHANGED <<password_reset_tokens, users, users_id_seq, refresh_tokens,
                   tokenSeq, now, ticks, millis, jwts, products, products_id_seq>>

\* the query a request in flight is waiting for fails (signup sends its
\* INSERT only when firstName.trim() has not thrown; the DELETE of
\* cleanupExpiredPasswordResetTokens fails in CleanupFails)
QueryFailsInFlight(q) ==
    /\ faults < MaxFaults
    /\ q.op = "signup" /\ q.pc = "insert" => q.firstName.defined
    /\ ~(q.op = "requestReset" /\ q.pc = "cleanup")
    /\ faults' = faults + 1
    /\ Answer(q, q, HandlerCatch(q), CatchEvents(q))
    /\ UNCHANGED <<password_reset_tokens, users, users_id_seq, refresh_tokens,
                   tokenSeq, received, now, ticks, millis, jwts, products, products_id_seq>>

\* the handlers with a store that may fail, at one instant of the clock
FaultNext ==
    \/ Handlers
    \/ \E q \in Arrivals : QueryFailsOnArrival(q)
    \/ \E q \in Requests : QueryFailsInFlight(q)

FaultSpec == Init /\ [][FaultNext]_vars

\* the DELETE of cleanupExpiredPasswordResetTokens fails: its catch block
\* logs the error and requestPasswordReset goes on
CleanupFails(q) ==
    /\ faults < MaxFaults
    /\ q.op = "requestReset" /\ q.pc = "cleanup"
    /\ faults' = faults + 1
    /\ tokenSeq' = tokenSeq + 1
    /\ Await(q, [q EXCEPT !.refreshToken = tokenSeq + 1,
                          !.expiresAt = now + resetTokenExpiresIn], "insert")
    /\ UNCHANGED <<users, users_id_seq, refresh_tokens, password_reset_tokens,
                   received, now, ticks, millis, jwts, products, products_id_seq>>

ResetArrivals ==
    { Request("requestReset", dto.email, "", Undefined, 0) : dto \in PasswordResetInputs }
    \cup { Request("validate", <<>>, "", Undefined, t) : t \in ResetTokenInputs }
    \cup { Request("confirm", <<>>, p, Undefined, t) :
               p \in NewPasswordInputs, t \in ResetTokenInputs }

\* the password reset flows with a store that may fail, at one instant of
\* the clock
ResetFaultNext ==
    \/ ResetHandlers
    \/ \E q \in ResetArrivals : QueryFailsOnArrival(q)
    \/ \E q \in Requests : QueryFailsInFlight(q)
    \/ \E q \in Requests : CleanupFails(q)

ResetFaultSpec == ResetLoginInit /\ [][ResetFaultNext]_vars

(***************************************************************************)
(* Access token verification and AuthGuard.canActivate (GET /auth/me).     *)
(* jsonwebtoken counts time in whole seconds: jwt.sign stamps              *)
(* iat = Math.floor(Date.now() / 1000) (now, in jwtSign) and jwt.verify    *)
(* compares exp with Math.floor(Date.now() / 1000).  In a request of the   *)
(* guard the field password holds the scheme of the Authorization header,   *)
(* accessToken the local token, user.id the local userId and before the    *)
(* kinds of all events logged by the time it was received.                 *)
(***************************************************************************)
\* Date.now(), in milliseconds
DateNow == 1000 * now + millis

\* null of extractUserIdFromToken (falsy, like the user id 0)
Null == 0

\* jwt.verify accepting a token in the second of its exp (mutation of
\* jwtVerifyError)
jwtVerifyErrorAfterExp(token, secret) ==
    IF token.key # secret THEN "JsonWebTokenError"
    ELSE IF now > token.exp THEN "TokenExpiredError"
    ELSE ""

\* the error jwt.verify(token, secret) throws, "" when it returns the
\* payload: a malformed token or a signature made with another key is a
\* JsonWebTokenError, clockTimestamp >= exp a TokenExpiredError
jwtVerifyError(token, secret) ==
    IF token.key # secret THEN "JsonWebTokenError"
    ELSE IF now >= token.exp THEN "TokenExpiredError"
    ELSE ""

\* verifyAccessToken without the check of payload.type (mutation of
\* verifyAccessToken)
verifyAccessTokenOfAnyType(token) ==
    IF jwtVerifyError(token, jwtSecret) # "" THEN NoJwt
    ELSE IF token.sub = <<>> \/ trim(token.sub) = <<>> THEN NoJwt
    ELSE token

\* JwtService.verifyAccessToken: the payload, or null (NoJwt)
verifyAccessToken(token) ==
    IF jwtVerifyError(token, jwtSecret) # "" THEN NoJwt
    ELSE IF token.type # "access" THEN NoJwt
    ELSE IF token.sub = <<>> \/ trim(token.sub) = <<>> THEN NoJwt
    ELSE token

\* extractUserIdFromToken refusing the tokens of a user who holds no refresh
\* token (mutation of extractUserIdFromToken)
extractUserIdOfLiveSession(token) ==
    LET payload == verifyAccessToken(token)
    IN IF payload = NoJwt THEN Null
       ELSE LET userId == parseInt(payload.sub)
            IN IF userId = NaN \/ userId <= 0 THEN Null
               ELSE IF \A row \in refresh_tokens : row.user_id # userId THEN Null
               ELSE userId

\* JwtService.extractUserIdFromToken
extractUserIdFromToken(token) ==
    LET payload == verifyAccessToken(token)
    IN IF payload = NoJwt THEN Null
       ELSE LET userId == parseInt(payload.sub)
            IN IF userId = NaN \/ userId <= 0 THEN Null ELSE userId

InternalServerErrorException(message) ==
    Response("InternalServerErrorException", message, NoUser, NoJwt, 0)

NotFoundException(message) == Response("NotFoundException", message, NoUser, NoJwt, 0)

\* the catch block of canActivate
GuardCatch(error) ==
    IF error.error = "UnauthorizedException"
    THEN error
    ELSE InternalServerErrorException("Authentication service error")

\* the Authorization header: absent, or a scheme, a blank and a token
NoBearer == [defined |-> FALSE, scheme |-> "", value |-> NoJwt]
Authorization(scheme, token) == [defined |-> TRUE, scheme |-> scheme, value |-> token]
Bearer(token) == Authorization("Bearer", token)

\* extractTokenFromHeader that does not look at the scheme (mutation of
\* extractTokenFromHeader)
extractTokenOfAnyScheme(header) ==
    IF header.defined THEN header.value ELSE NoJwt

\* AuthGuard.extractTokenFromHeader: the token, or undefined (NoJwt)
extractTokenFromHeader(header) ==
    IF header.defined /\ header.scheme = "Bearer" THEN header.value ELSE NoJwt

\* an access token handed out at time issuedAt (milliseconds) for userId
Jwt(token, userId, issuedAt) == [token |-> token, userId |-> userId, issuedAt |-> issuedAt]

\* a string that is no JWT
MalformedJwt == [NoJwt EXCEPT !.type = "malformed"]

\* the headers a request may carry: none, Bearer without a token, a
\* malformed token, the tokens handed out under the schemes Bearer, bearer
\* and Basic, and for each of them the token signed with another secret, of
\* another type, or with a subject that is no user id
BearerInputs ==
    {NoBearer, Bearer(NoJwt), Bearer(MalformedJwt)}
    \cup { Authorization(scheme, j.token) : scheme \in {"Bearer", "bearer", "Basic"}, j \in jwts }
    \cup { Bearer([j.token EXCEPT !.key = "another-secret"]) : j \in jwts }
    \cup { Bearer([j.token EXCEPT !.type = "refresh"]) : j \in jwts }
    \cup { Bearer([j.token EXCEPT !.sub = sub]) :
              j \in jwts, sub \in {<<"0">>, <<"x">>, <<" ">>} }

\* generateAccessToken(user.id), as signup, login and refreshToken call it
\* for a user of the store
GenerateAccessToken(userId) ==
    /\ Cardinality(jwts) < MaxTokens
    /\ \E u \in users : u.id = userId
    /\ jwts' = jwts \cup {Jwt(generateAccessToken(userId), userId, DateNow)}
    /\ UNCHANGED <<users, users_id_seq, refresh_tokens, password_reset_tokens,
                   tokenSeq, inflight, received, response, log, now, ticks, faults,
                   millis, products, products_id_seq>>

\* canActivate up to the await of validateUser
GuardCanActivate(bearer) ==
    /\ CanReceive
    /\ received' = received + 1
    /\ LET token == extractTokenFromHeader(bearer)
           q == [Request("me", <<>>, bearer.scheme, Undefined, 0) EXCEPT
                   !.accessToken = token, !.before = { e.event : e \in log }]
           userId == extractUserIdFromToken(token)
       IN IF token = NoJwt
          THEN Answer(q, q, GuardCatch(UnauthorizedException("Access token is required")), {})
          ELSE IF userId = Null
          THEN Answer(q, q, GuardCatch(UnauthorizedException("Invalid access token")), {})
          ELSE Await(q, [q EXCEPT !.user = [NoUser EXCEPT !.id = userId]], "validateUser")
    /\ UNCHANGED <<users, users_id_seq, refresh_tokens, password_reset_tokens,
                   tokenSeq, now, ticks, faults, millis, jwts, products, products_id_seq>>

\* AuthService.validateUser (its SELECT, the NotFoundException when there
\* is no row), the rest of canActivate and getCurrentUser
GuardValidateUser(q) ==
    /\ q.op = "me" /\ q.pc = "validateUser"
    /\ LET rows == { u \in users : u.id = q.user.id }
       IN IF rows = {}
          THEN Answer(q, q, GuardCatch(NotFoundException("User not found")), {})
          ELSE Answer(q, q, Response("", "", UserOf(CHOOSE u \in rows : TRUE), NoJwt, 0), {})
    /\ UNCHANGED <<users, users_id_seq, refresh_tokens, password_reset_tokens,
                   tokenSeq, received, now, ticks, faults, millis, jwts, products, products_id_seq>>

\* a row of users is deleted from outside (nothing in the service deletes
\* users); its products, refresh and reset tokens go with it (ON DELETE
\* CASCADE)
DeleteUser(userId) ==
    /\ \E u \in users : u.id = userId
    /\ users' = { u \in users : u.id # userId }
    /\ refresh_tokens' = { row \in refresh_tokens : row.user_id # userId }
    /\ password_reset_tokens' = { row \in password_reset_tokens : row.user_id # userId }
    /\ products' = { row \in products : row.user_id # userId }
    /\ UNCHANGED <<users_id_seq, tokenSeq, inflight, received, response, log, now,
                   ticks, faults, millis, jwts, products_id_seq>>

\* the clock moves on by d milliseconds
TickMillis(d) ==
    /\ ticks < MaxTicks
    /\ now' = now + (millis + d) \div 1000
    /\ millis' = (millis + d) % 1000
    /\ ticks' = ticks + 1
    /\ UNCHANGED <<users, users_id_seq, refresh_tokens, password_reset_tokens,
                   tokenSeq, inflight, received, response, log, faults, jwts, products, products_id_seq>>

\* to half a second before the time to live of an access token, to it, and
\* half a second past it
GuardTickSteps ==
    {1000 * jwtExpiresIn - 500, 1000 * jwtExpiresIn, 1000 * jwtExpiresIn + 500}

\* signup(a, secret1, J) has returned; the clock reads a whole second or
\* the middle of one
GuardInit ==
    /\ users = { RegisteredUser(1, <<"a">>, "secret1") }
    /\ users_id_seq = 1
    /\ refresh_tokens = {}
    /\ password_reset_tokens = {}
    /\ tokenSeq = 0
    /\ inflight = EmptyBag
    /\ received = 0
    /\ response = NoRequest
    /\ log = {}
    /\ now = 0
    /\ ticks = 0
    /\ faults = 0
    /\ millis \in {0, 500}
    /\ jwts = {}
    /\ products = {}
    /\ products_id_seq = 0

GuardNext ==
    \/ \E u \in users : GenerateAccessToken(u.id)
    \/ \E bearer \in BearerInputs : GuardCanActivate(bearer)
    \/ \E q \in Requests : GuardValidateUser(q)
    \/ \E u \in users : DeleteUser(u.id)
    \/ \E d \in GuardTickSteps : TickMillis(d)

GuardSpec == GuardInit /\ [][GuardNext]_vars

(***************************************************************************)
(* Service start-up: DatabaseService.onModuleInit runs initializeTables,    *)
(* which creates users, products and refresh_tokens only if they do not    *)
(* exist and drops and recreates password_reset_tokens.  The requests that *)
(* were in flight went with the process that was stopped.                  *)
(*   restarted  the service has started again                              *)
(*   dropped    the reset token was in the ledger that a start-up dropped  *)
(***************************************************************************)
Restarted == Event("restarted", 0, 0, 0, 0)
Dropped(token) == Event("dropped", token, 0, 0, 0)

\* initializeTables with CREATE TABLE IF NOT EXISTS password_reset_tokens
\* and no DROP (mutation of Restart)
RestartKeepsLedger ==
    /\ inflight' = EmptyBag
    /\ log' = log \cup {Restarted} \cup { Dropped(row.token) : row \in password_reset_tokens }
    /\ UNCHANGED <<users, users_id_seq, refresh_tokens, password_reset_tokens, tokenSeq,
                   received, response, now, ticks, faults, millis, jwts, products,
                   products_id_seq>>

\* the service is stopped and started
Restart ==
    /\ inflight' = EmptyBag
    /\ password_reset_tokens' = {}
    /\ log' = log \cup {Restarted} \cup { Dropped(row.token) : row \in password_reset_tokens }
    /\ UNCHANGED <<users, users_id_seq, refresh_tokens, tokenSeq, received, response,
                   now, ticks, faults, millis, jwts, products, products_id_seq>>

RestartNext ==
    \/ ResetHandlers
    \/ \E dto \in ResetLoginInputs : LoginSelect(dto.email, dto.password)
    \/ \E q \in Requests : LoginToken(q)
    \/ \E t \in TokenInputs : RefreshSelect(t)
    \/ \E q \in Requests : RefreshInsert(q)
    \/ \E q \in Requests : RefreshDelete(q)
    \/ Restart

RestartSpec == ResetRefreshInit /\ [][RestartNext]_vars

(***************************************************************************)
(* A session and the guard: login has handed out the refresh token         *)
(* SessionToken together with an access token; the client logs out,        *)
(* refreshes and calls the guarded route while the clock moves on.         *)
(***************************************************************************)
\* the refresh token of the session
SessionToken == 1

\* login(a, secret1) has returned SessionToken and an access token
SessionInit ==
    /\ users = { RegisteredUser(1, <<"a">>, "secret1") }
    /\ users_id_seq = 1
    /\ refresh_tokens = { RefreshTokenRow(1, SessionToken, refreshTokenExpiresIn) }
    /\ password_reset_tokens = {}
    /\ tokenSeq = SessionToken
    /\ inflight = EmptyBag
    /\ received = 0
    /\ response = NoRequest
    /\ log = { Issued(SessionToken, 1, refreshTokenExpiresIn) }
    /\ now = 0
    /\ ticks = 0
    /\ faults = 0
    /\ millis \in {0, 500}
    /\ jwts = { Jwt(generateAccessToken(1), 1, DateNow) }
    /\ products = {}
    /\ products_id_seq = 0

SessionNext ==
    \/ \E t \in TokenInputs : Logout(t)
    \/ \E t \in TokenInputs : RefreshSelect(t)
    \/ \E q \in Requests : RefreshInsert(q)
    \/ \E q \in Requests : RefreshDelete(q)
    \/ \E bearer \in BearerInputs : GuardCanActivate(bearer)
    \/ \E q \in Requests : GuardValidateUser(q)
    \/ \E d \in GuardTickSteps : TickMillis(d)

SessionSpec == SessionInit /\ [][SessionNext]_vars

(***************************************************************************)
(* ProductsController and ProductsService (/products).  The controller     *)
(* carries no guard (@UseGuards is commented out) and every handler calls  *)
(* the service with userId = 1.  A product request keeps its Authorization *)
(* header in authorization, the route parameter in id, the body or query   *)
(* in dto and the local existingProduct.  The columns description,         *)
(* created_at and updated_at are left out, and findAll is modelled for     *)
(* requests without search and limit: with fewer than ten products the     *)
(* first page holds every row and the later pages none.                    *)
(***************************************************************************)
\* const userId = 1 of every handler of the controller
ControllerUserId == 1

\* let limit = 10 of findAll
DefaultLimit == 10

NoProduct == [id |-> 0, name |-> <<>>, price |-> 0, user_id |-> 0]

ProductRow(id, name, price, userId) ==
    [id |-> id, name |-> name, price |-> price, user_id |-> userId]

\* ProductsService.mapToProductResponse
mapToProductResponse(row) ==
    [id |-> row.id, name |-> row.name, price |-> row.price, userId |-> row.user_id]

\* what a product handler returns or throws: products are the products of
\* the body, total the count of findAll
ProductsResponse(error, message, rows, total) ==
    [error |-> error, message |-> message, user |-> NoUser, accessToken |-> NoJwt,
     refreshToken |-> 0, products |-> rows, total |-> total]

ProductReturned(row) == ProductsResponse("", "", {mapToProductResponse(row)}, 0)

ProductsError(error, message) == ProductsResponse(error, message, {}, 0)

ProductNotFound == ProductsError("NotFoundException", "Product with ID ${id} not found")

ProductNameConflict ==
    ProductsError("ConflictException", "A product with this name already exists")

ProductsRequest(op, header, id, dto) ==
    [op |-> op, pc |-> "received",
     email |-> <<>>, password |-> "", firstName |-> Undefined, token |-> 0,
     user |-> NoUser, accessToken |-> NoJwt, refreshToken |-> 0, expiresAt |-> 0,
     rowCount |-> 0, result |-> Pending, at |-> now, before |-> {},
     authorization |-> header, id |-> id, dto |-> dto,
     existingProduct |-> NoProduct, rows |-> {}]

\* a number that is absent from a body
UndefinedNumber == [defined |-> FALSE, value |-> 0]

\* CreateProductDto: name is a non-empty string, price a positive number
CreateProductDto(dto) == dto.name # <<>> /\ dto.price > 0

\* UpdateProductDto: as CreateProductDto, every field optional
UpdateProductDto(dto) ==
    /\ dto.name.defined => dto.name.value # <<>>
    /\ dto.price.defined => dto.price.value > 0

CreateProductInputs ==
    { dto \in [name : {<<"p">>, <<"q", " ">>}, price : {1}] : CreateProductDto(dto) }

UpdateProductInputs ==
    { dto \in { [name |-> Undefined, price |-> UndefinedNumber],
                [name |-> Some(<<"q">>), price |-> UndefinedNumber],
                [name |-> Undefined, price |-> Some(2)] } : UpdateProductDto(dto) }

\* ProductQueryDto: page is an optional string
ProductQueryInputs == { [page |-> page] : page \in {Undefined, Some(<<"0">>), Some(<<"2">>)} }

ProductIdInputs == {1, 2}

\* the Authorization headers of product requests: none, and the access
\* tokens handed out
ProductsBearerInputs == {NoBearer} \cup { Bearer(j.token) : j \in jwts }

\* SELECT * FROM products WHERE id = $1 AND user_id = $2
SelectProduct(id, userId) == { row \in products : row.id = id /\ row.user_id = userId }

\* SELECT * FROM products WHERE user_id = $1 ... LIMIT $2 OFFSET $3
SelectProductsPage(userId, limit, offset) ==
    LET rows == { row \in products : row.user_id = userId }
    IN IF offset = 0 /\ Cardinality(rows) <= limit THEN rows ELSE {}

\* SELECT COUNT(*) FROM products WHERE user_id = $1
CountProducts(userId) == Cardinality({ row \in products : row.user_id = userId })

\* SELECT id FROM products WHERE name = $1 AND user_id = $2 AND id != $3
\* (create passes no id: 0)
SelectProductsByName(name, userId, id) ==
    { row \in products : row.name = name /\ row.user_id = userId /\ row.id # id }

\* create: the SELECT of the products of that name
ProductsCreateSelect(header, dto) ==
    /\ CanReceiveReset
    /\ received' = received + 1
    /\ LET userId == ControllerUserId
           q == [ProductsRequest("createProduct", header, 0, dto) EXCEPT !.user.id = userId]
       IN IF SelectProductsByName(trim(dto.name), userId, 0) # {}
          THEN Answer(q, q, ProductNameConflict, {})
          ELSE Await(q, q, "insert")
    /\ UNCHANGED <<users, users_id_seq, refresh_tokens, password_reset_tokens,
                   tokenSeq, now, ticks, faults, millis, jwts, products,
                   products_id_seq>>

\* create: the INSERT, which fails when user_id references no row of users
ProductsCreateInsert(q) ==
    /\ q.op = "createProduct" /\ q.pc = "insert"
    /\ products_id_seq' = products_id_seq + 1
    /\ LET row == ProductRow(products_id_seq + 1, trim(q.dto.name), q.dto.price, q.user.id)
       IN IF \E u \in users : u.id = q.user.id
          THEN /\ products' = products \cup {row}
               /\ Answer(q, q, ProductReturned(row), {})
          ELSE /\ UNCHANGED products
               /\ Answer(q, q, ProductsError("BadRequestException",
                                "Failed to create product. Please try again."), {})
    /\ UNCHANGED <<users, users_id_seq, refresh_tokens, password_reset_tokens,
                   tokenSeq, received, now, ticks, faults, millis, jwts>>

\* findAll of the controller: if (query.page)
HasPage(query) == query.page.defined /\ query.page.value # <<>>

\* findAll of the controller: page, NaN when the query names none that is a
\* positive integer
PageOf(query) ==
    IF ~HasPage(query) THEN 1
    ELSE LET parsedPage == parseInt(query.page.value)
         IN IF parsedPage = NaN \/ parsedPage < 1 THEN NaN ELSE parsedPage

\* findAll: the parsing of the query and the first of the two queries of
\* Promise.all that the store runs
ProductsFindAll(header, query, first) ==
    /\ CanReceiveReset
    /\ received' = received + 1
    /\ LET userId == ControllerUserId
           q == [ProductsRequest("findAllProducts", header, 0, query) EXCEPT !.user.id = userId]
           page == PageOf(query)
           offset == (page - 1) * DefaultLimit
       IN IF page = NaN
          THEN Answer(q, q, ProductsError("BadRequestException",
                                "Page must be a valid positive integer"), {})
          ELSE IF first = "rows"
          THEN Await(q, [q EXCEPT !.rows = SelectProductsPage(userId, DefaultLimit, offset)],
                     "count")
          ELSE Await(q, [q EXCEPT !.rowCount = CountProducts(userId)], "rows")
    /\ UNCHANGED <<users, users_id_seq, refresh_tokens, password_reset_tokens,
                   tokenSeq, now, ticks, faults, millis, jwts, products,
                   products_id_seq>>

\* findAll: the second of the two queries
ProductsFindAllSecond(q) ==
    /\ q.op = "findAllProducts" /\ q.pc \in {"rows", "count"}
    /\ LET page == PageOf(q.dto)
           offset == (page - 1) * DefaultLimit
           rows == IF q.pc = "rows"
                   THEN SelectProductsPage(q.user.id, DefaultLimit, offset)
                   ELSE q.rows
           total == IF q.pc = "count" THEN CountProducts(q.user.id) ELSE q.rowCount
       IN Answer(q, q, ProductsResponse("", "", { mapToProductResponse(row) : row \in rows },
                                        total), {})
    /\ UNCHANGED <<users, users_id_seq, refresh_tokens, password_reset_tokens,
                   tokenSeq, received, now, ticks, faults, millis, jwts, products,
                   products_id_seq>>

\* findOne
ProductsFindOne(header, id) ==
    /\ CanReceiveReset
    /\ received' = received + 1
    /\ LET userId == ControllerUserId
           q == [ProductsRequest("findOneProduct", header, id, Undefined) EXCEPT !.user.id = userId]
           rows == SelectProduct(id, userId)
       IN IF rows = {}
          THEN Answer(q, q, ProductNotFound, {})
          ELSE Answer(q, q, ProductReturned(CHOOSE row \in rows : TRUE), {})
    /\ UNCHANGED <<users, users_id_seq, refresh_tokens, password_reset_tokens,
                   tokenSeq, now, ticks, faults, millis, jwts, products,
                   products_id_seq>>

\* update: its findOne, and the return of the product when the body names
\* no field
ProductsUpdateFindOne(header, id, dto) ==
    /\ CanReceiveReset
    /\ received' = received + 1
    /\ LET userId == ControllerUserId
           q == [ProductsRequest("updateProduct", header, id, dto) EXCEPT !.user.id = userId]
           rows == SelectProduct(id, userId)
           existingProduct == CHOOSE row \in rows : TRUE
       IN IF rows = {}
          THEN Answer(q, q, ProductNotFound, {})
          ELSE IF ~dto.name.defined /\ ~dto.price.defined
          THEN Answer(q, q, ProductReturned(existingProduct), {})
          ELSE IF dto.name.defined /\ dto.name.value # existingProduct.name
          THEN Await(q, [q EXCEPT !.existingProduct = existingProduct], "conflict")
          ELSE Await(q, [q EXCEPT !.existingProduct = existingProduct], "update")
    /\ UNCHANGED <<users, users_id_seq, refresh_tokens, password_reset_tokens,
                   tokenSeq, now, ticks, faults, millis, jwts, products,
                   products_id_seq>>

\* update: the SELECT of the other products of the new name
ProductsUpdateConflict(q) ==
    /\ q.op = "updateProduct" /\ q.pc = "conflict"
    /\ IF SelectProductsByName(trim(q.dto.name.value), q.user.id, q.id) # {}
       THEN Answer(q, q, ProductNameConflict, {})
       ELSE Await(q, q, "update")
    /\ UNCHANGED <<users, users_id_seq, refresh_tokens, password_reset_tokens,
                   tokenSeq, received, now, ticks, faults, millis, jwts, products,
                   products_id_seq>>

\* update: the UPDATE; when the row is gone mapToProductResponse throws and
\* the catch of update answers its generic failure
ProductsUpdateUpdate(q) ==
    /\ q.op = "updateProduct" /\ q.pc = "update"
    /\ LET rows == SelectProduct(q.id, q.user.id)
           row == CHOOSE r \in rows : TRUE
           updated == [row EXCEPT
                         !.name = IF q.dto.name.defined THEN trim(q.dto.name.value) ELSE @,
                         !.price = IF q.dto.price.defined THEN q.dto.price.value ELSE @]
       IN IF rows = {}
          THEN /\ UNCHANGED products
               /\ Answer(q, q, ProductsError("BadRequestException",
                                "Failed to update product. Please try again."), {})
          ELSE /\ products' = (products \ rows) \cup {updated}
               /\ Answer(q, q, ProductReturned(updated), {})
    /\ UNCHANGED <<users, users_id_seq, refresh_tokens, password_reset_tokens,
                   tokenSeq, received, now, ticks, faults, millis, jwts,
                   products_id_seq>>

\* remove: its findOne
ProductsRemoveFindOne(header, id) ==
    /\ CanReceiveReset
    /\ received' = received + 1
    /\ LET userId == ControllerUserId
           q == [ProductsRequest("removeProduct", header, id, Undefined) EXCEPT !.user.id = userId]
       IN IF SelectProduct(id, userId) = {}
          THEN Answer(q, q, ProductNotFound, {})
          ELSE Await(q, q, "delete")
    /\ UNCHANGED <<users, users_id_seq, refresh_tokens, password_reset_tokens,
                   tokenSeq, now, ticks, faults, millis, jwts, products,
                   products_id_seq>>

\* remove: the DELETE
ProductsRemoveDelete(q) ==
    /\ q.op = "removeProduct" /\ q.pc = "delete"
    /\ LET rows == SelectProduct(q.id, q.user.id)
       IN /\ products' = products \ rows
          /\ IF rows = {}
             THEN Answer(q, q, ProductsError("NotFoundException",
                            "Product with ID ${id} not found or access denied"), {})
             ELSE Answer(q, q, ProductsResponse("", "Product deleted successfully", {}, 0), {})
    /\ UNCHANGED <<users, users_id_seq, refresh_tokens, password_reset_tokens,
                   tokenSeq, received, now, ticks, faults, millis, jwts,
                   products_id_seq>>

\* signup(a, secret1, J) and signup(b, secret2, J) have returned, each with
\* an access token
ProductsInit ==
    /\ users = { RegisteredUser(1, <<"a">>, "secret1"), RegisteredUser(2, <<"b">>, "secret2") }
    /\ users_id_seq = 2
    /\ refresh_tokens = {}
    /\ password_reset_tokens = {}
    /\ tokenSeq = 0
    /\ inflight = EmptyBag
    /\ received = 0
    /\ response = NoRequest
    /\ log = {}
    /\ now = 0
    /\ ticks = 0
    /\ faults = 0
    /\ millis = 0
    /\ jwts = { Jwt(generateAccessToken(id), id, 0) : id \in {1, 2} }
    /\ products = {}
    /\ products_id_seq = 0

ProductsNext ==
    \/ \E header \in ProductsBearerInputs, dto \in CreateProductInputs :
          ProductsCreateSelect(header, dto)
    \/ \E q \in Requests : ProductsCreateInsert(q)
    \/ \E header \in ProductsBearerInputs, query \in ProductQueryInputs,
          first \in {"rows", "count"} : ProductsFindAll(header, query, first)
    \/ \E q \in Requests : ProductsFindAllSecond(q)
    \/ \E header \in ProductsBearerInputs, id \in ProductIdInputs : ProductsFindOne(header, id)
    \/ \E header \in ProductsBearerInputs, id \in ProductIdInputs, dto \in UpdateProductInputs :
          ProductsUpdateFindOne(header, id, dto)
    \/ \E q \in Requests : ProductsUpdateConflict(q)
    \/ \E q \in Requests : ProductsUpdateUpdate(q)
    \/ \E header \in ProductsBearerInputs, id \in ProductIdInputs :
          ProductsRemoveFindOne(header, id)
    \/ \E q \in Requests : ProductsRemoveDelete(q)

ProductsSpec == ProductsInit /\ [][ProductsNext]_vars

(***************************************************************************)
(* Properties.                                                             *)
(***************************************************************************)
InvalidRefreshToken == UnauthorizedException("Invalid or expired refresh token")

\* the requests whose response is known or pending
Known == Requests \cup {response}

\* C1: refresh rotation is single-use.  Once refreshToken(t) has returned
\* successfully, the ledger holds no row with token t, and every
\* refreshToken(t) received afterwards is answered Unauthorized.
C1_RotationSingleUse ==
    /\ \A e \in log : e.event = "rotated" => RefreshTokensWithToken(e.token) = {}
    /\ \A q \in Known :
          q.op = "refresh" /\ "rotated" \in q.before
             => q.pc = "done" /\ q.result = InvalidRefreshToken

C1_Witness ==
    /\ response.op = "refresh"
    /\ "rotated" \in response.before
    /\ response.result.error = "UnauthorizedException"

\* C2: rotation is atomic with the invalidation of the old token.  No
\* refresh token t is exchanged twice: at most one refreshToken(t) succeeds,
\* also when several requests present t concurrently.
C2_AtMostOneExchange ==
    \A t \in TokenInputs :
        Cardinality({ e \in log : e.event = "rotated" /\ e.token = t }) <= 1

(***************************************************************************)
(* Steps, for the properties that speak of one step of a request.          *)
(***************************************************************************)
\* a request is received in this step; Arrived is that request after it
Arrival == received' = received + 1

Arrived ==
    IF inflight' = inflight
    THEN response'
    ELSE CHOOSE q \in BagToSet(inflight') : CopiesIn(q, inflight') > CopiesIn(q, inflight)

\* a request in flight is answered in this step: response' is that request
Completion == BagCardinality(inflight') < BagCardinality(inflight)

\* a request in flight runs a query in this step and stays in flight
Progress ==
    /\ received' = received
    /\ inflight' # inflight
    /\ BagCardinality(inflight') = BagCardinality(inflight)

Progressing == CHOOSE q \in Requests : CopiesIn(q, inflight') < CopiesIn(q, inflight)

\* C3: refreshToken(t) succeeds if and only if, when its SELECT runs, the
\* ledger holds a row with token t and expires_at > now; otherwise it is
\* answered Unauthorized, with one and the same error whether the row is
\* missing or expired.
C3_Step ==
    /\ Arrival /\ Arrived.op = "refresh" =>
          IF \E row \in refresh_tokens :
                row.token = Arrived.token /\ row.expires_at > now
          THEN Arrived.pc = "insert" /\ BagIn(Arrived, inflight')
          ELSE Arrived.pc = "done" /\ Arrived.result = InvalidRefreshToken
    /\ Completion /\ response'.op = "refresh" =>
          /\ response'.result.error = ""
          /\ response'.result.refreshToken # 0

\* C3: every step in which a refreshToken runs its SELECT goes on to success
\* exactly when a live row of the token exists, else answers Unauthorized.
C3_RefreshIffLive == [][C3_Step]_vars

\* a refreshToken rejected because the row of its token had just expired
C3_Witness ==
    /\ response.op = "refresh"
    /\ response.result = InvalidRefreshToken
    /\ \E row \in refresh_tokens :
          row.token = response.token /\ row.expires_at = response.at

\* C4: a refresh token returned by signup, login or refreshToken is live and
\* bound to the user it was returned for.  Presented to refreshToken before
\* its expiry and before any logout or rotation of it, the call succeeds,
\* inserts exactly one new row, for the same user, deletes the row of the
\* presented token, and returns the new token with an access token whose
\* subject is that user.
IssuedEvents(token) == { e \in log : e.event = "issued" /\ e.token = token }

Owner(token) == (CHOOSE e \in IssuedEvents(token) : TRUE).userId

PresentedLive(q) ==
    /\ q.op = "refresh"
    /\ \E e \in IssuedEvents(q.token) : e.expiresAt > q.at
    /\ q.before \cap {"rotated", "loggedOut", "swallowed"} = {}

C4_State ==
    \A q \in Known : PresentedLive(q) =>
        /\ q.pc \in {"insert", "delete", "done"}
        /\ q.user.id = Owner(q.token)
        /\ q.pc = "delete" =>
              RefreshTokenRow(Owner(q.token), q.refreshToken, q.expiresAt) \in refresh_tokens
        /\ q.pc = "done" =>
              /\ q.result.error = ""
              /\ RefreshTokensWithToken(q.token) = {}
              /\ q.result.refreshToken = q.refreshToken
              /\ q.result.refreshToken \notin {0, q.token}
              /\ q.result.accessToken.type = "access"
              /\ parseInt(q.result.accessToken.sub) = Owner(q.token)
              /\ Owner(q.result.refreshToken) = Owner(q.token)

C4_Step ==
    /\ Arrival /\ Arrived.op = "refresh" => refresh_tokens' = refresh_tokens
    /\ Progress /\ Progressing.op = "refresh" =>
          LET q == Progressing
              row == [user_id |-> Owner(q.token), token |-> q.refreshToken,
                      expires_at |-> q.expiresAt]
          IN /\ row \notin refresh_tokens
             /\ RefreshTokensWithToken(q.refreshToken) = {}
             /\ refresh_tokens' = refresh_tokens \cup {row}
    /\ Completion /\ response'.op = "refresh" =>
          refresh_tokens' =
              { row \in refresh_tokens : row.token # response'.token }

\* C4: every refresh of a live, handed-out token succeeds, stores one new row
\* for the owner and removes the presented one.
C4_RefreshOfLiveToken == [][C4_State' /\ C4_Step]_vars

\* a successful refreshToken of a token that a refreshToken had returned
C4_Witness ==
    /\ response.op = "refresh"
    /\ PresentedLive(response)
    /\ response.result.error = ""
    /\ \E e \in log : e.event = "rotated" /\ e.newToken = response.token

\* C5 as claimed: logout(t) always returns the success message, and a
\* logout(t) that follows a returned logout(t) leaves the ledger unchanged.
C5_Claimed_Step ==
    Arrival /\ Arrived.op = "logout" =>
        /\ Arrived.pc = "done" /\ Arrived.result = LogoutMessage
        /\ Arrived.before \cap {"loggedOut", "swallowed"} # {}
              => refresh_tokens' = refresh_tokens

\* C5 as claimed: every logout succeeds, and a logout(t) following a returned
\* logout(t) leaves the ledger unchanged.
C5_Claimed == [][C5_Claimed_Step]_vars

\* C5, amended: logout(t) returns the success message for every token and
\* every state of the store, also when its DELETE fails; a logout(t) that
\* follows a logout(t) whose DELETE was executed leaves the ledger unchanged.
C5_Step ==
    Arrival /\ Arrived.op = "logout" =>
        /\ Arrived.pc = "done" /\ Arrived.result = LogoutMessage
        /\ "loggedOut" \in Arrived.before => refresh_tokens' = refresh_tokens

\* C5, amended: every logout succeeds, and a logout(t) following a logout(t)
\* whose DELETE was executed leaves the ledger unchanged.
C5_LogoutIdempotent == [][C5_Step]_vars

\* a second logout of an issued token, its DELETE failing or not
C5_Witness ==
    /\ response.op = "logout"
    /\ {"issued", "loggedOut"} \subseteq response.before
    /\ response.result = LogoutMessage

Stored(email) == \E u \in users : u.email = NormalizeEmail(email)

C7_Step ==
    /\ Arrival /\ Arrived.op = "signup" =>
          IF Stored(Arrived.email)
          THEN /\ Arrived.pc = "done"
               /\ Arrived.result.error = "ConflictException"
               /\ users' = users
          ELSE Arrived.pc = "insert"
    /\ Progress /\ Progressing.op = "signup" =>
          Cardinality(users') = Cardinality(users) + 1
    /\ Completion /\ response'.op = "signup" /\ ~Stored(response'.email) =>
          response'.result.error = ""

\* C7: every signup whose normalized email is not stored succeeds and creates
\* one user; one whose email is stored fails and creates none.
C7_SignupUniqueness == [][C7_Step]_vars

\* C8: the users table holds at most one row per normalized email, in every
\* reachable state, also under concurrent signups for one address.
C8_OneUserPerEmail ==
    \A u, v \in users :
        NormalizeEmail(u.email) = NormalizeEmail(v.email) => u = v

\* a signup that passed the pre-check and was rejected by the constraint
C8_Witness ==
    /\ response.op = "signup"
    /\ response.firstName.defined
    /\ response.result = SignupFailure
    /\ response.email # NormalizeEmail(response.email)
    /\ Stored(response.email)

\* C9: a signup that fails because its normalized email is present reports
\* Conflict, also when the duplicate is detected by the unique constraint of
\* the store and not by the pre-check.
C9_DuplicateIsConflict ==
    response.op = "signup" /\ response.firstName.defined /\ response.result.error # ""
        => response.result.error = "ConflictException"

\* C10: login with an unknown email and login with a wrong password are
\* answered with the same Unauthorized "Invalid credentials" and change no
\* state; login succeeds exactly when the normalized email is registered
\* and the password matches the stored hash, and then returns that user's
\* id with a fresh access token and a fresh refresh token.
InvalidCredentials == UnauthorizedException("Invalid credentials")

C10_Step ==
    /\ Arrival /\ Arrived.op = "login" =>
          LET q == Arrived
              matching == { u \in users : /\ u.email = NormalizeEmail(q.email)
                                           /\ u.password_hash.of = q.password }
          IN IF matching = {}
             THEN /\ q.pc = "done" /\ q.result = InvalidCredentials
                  /\ UNCHANGED <<users, users_id_seq, refresh_tokens, tokenSeq, log>>
             ELSE /\ q.pc = "token" /\ BagIn(q, inflight')
                  /\ q.user.id \in { u.id : u \in matching }
    /\ Completion /\ response'.op = "login" =>
          LET r == response'.result
          IN /\ r.error = ""
             /\ \E u \in users : u.email = NormalizeEmail(response'.email) /\ u.id = r.user.id
             /\ r.accessToken.type = "access"
             /\ r.accessToken.key = jwtSecret
             /\ parseInt(r.accessToken.sub) = r.user.id
             /\ r.accessToken.iat = response'.at
             /\ r.accessToken.exp = response'.at + jwtExpiresIn
             /\ r.refreshToken # 0
             /\ r.refreshToken \notin { e.token : e \in log }
             /\ RefreshTokensWithToken(r.refreshToken) = {}
             /\ \E row \in refresh_tokens' :
                   row.token = r.refreshToken /\ row.user_id = r.user.id

\* C10: every login step answers unknown email and wrong password alike and
\* changes nothing; a valid login returns that user's fresh token pair.
C10_LoginHidesExistence == [][C10_Step]_vars

\* a login with the email of a registered user and a wrong password
C10_Witness ==
    /\ response.op = "login"
    /\ response.result = InvalidCredentials
    /\ Stored(response.email)

\* C11: password reset replaces the credential.  A login received after a
\* successful confirmPasswordReset(token, p2) of a user, no other request
\* answered in between, goes on to success for that user when it presents
\* p2, and is answered Unauthorized when it presents another password.
C11_Step ==
    Arrival /\ Arrived.op = "login"
            /\ response.op = "confirm" /\ response.result = PasswordReset
            /\ (\E u \in users : /\ u.id = response.user.id
                                 /\ u.email = NormalizeEmail(Arrived.email))
        => IF Arrived.password = response.password
           THEN Arrived.pc = "token" /\ Arrived.user.id = response.user.id
           ELSE Arrived.pc = "done" /\ Arrived.result = InvalidCredentials

\* C11: every login that follows a successful confirmPasswordReset(token, p2)
\* succeeds with p2 and fails with every other password.
C11_ResetReplacesCredential == [][C11_Step]_vars

\* the user a mailed reset token was issued for
MailedEvents(token) == { e \in log : e.event = "mailed" /\ e.token = token }

MailedTo(token) == (CHOOSE e \in MailedEvents(token) : TRUE).userId

\* the user of token has a row with another token: a later issuance for
\* that user has replaced token
Superseded(token) ==
    /\ MailedEvents(token) # {}
    /\ \E row \in password_reset_tokens :
          row.user_id = MailedTo(token) /\ row.token # token

C12_State ==
    \A r1, r2 \in password_reset_tokens : r1.user_id = r2.user_id => r1 = r2

C12_Step ==
    /\ Progress /\ Progressing.op = "requestReset" /\ Progressing.pc = "insert" =>
          LET q == Progressing
          IN /\ { row \in password_reset_tokens' : row.user_id = q.user.id }
                   = { PasswordResetTokenRow(q.user.id, q.refreshToken, q.expiresAt) }
             /\ { row \in password_reset_tokens' : row.user_id # q.user.id }
                   = { row \in password_reset_tokens : row.user_id # q.user.id }
    /\ Arrival /\ Arrived.op = "validate" /\ Superseded(Arrived.token) =>
          Arrived.pc = "done" /\ Arrived.result = InvalidResetToken
    /\ Arrival /\ Arrived.op = "validate"
               /\ (\E row \in password_reset_tokens :
                      row.token = Arrived.token /\ row.expires_at > now) =>
          Arrived.pc = "done" /\ Arrived.result = Valid

\* C12: reset-token issuance is last-write-wins per user.  The reset ledger
\* holds at most one row per user id in every state, also under concurrent
\* requestPasswordReset calls; an issuance leaves its row as the only row of
\* the user; validatePasswordResetToken answers invalid for a token that a
\* later issuance has replaced, and valid for the token of the live row.
C12_LastWriteWins == [][C12_State' /\ C12_Step]_vars

\* validatePasswordResetToken of a mailed token that a second issuance for
\* its user has replaced
C12_Witness ==
    /\ response.op = "validate"
    /\ response.result = InvalidResetToken
    /\ Superseded(response.token)

\* C13: reset confirmation is single-use.  Once confirmPasswordReset with
\* token k has returned its success message, the ledger holds no row with
\* token k, every confirmPasswordReset with k received afterwards is
\* answered BadRequest on arrival, and that step changes no password hash.
C13_State ==
    /\ \A e \in log : e.event = "confirmed" => SelectPasswordResetTokens(e.token) = {}
    /\ \A q \in Known :
          q.op = "confirm" /\ "confirmed" \in q.before
             => /\ q.pc = "done"
                /\ q.result = BadRequestException("Invalid reset token")

C13_Step ==
    Arrival /\ Arrived.op = "confirm" /\ "confirmed" \in Arrived.before
        => users' = users

\* C13: every confirmPasswordReset of a token that a confirmPasswordReset
\* has consumed fails with BadRequest and leaves the password hashes alone.
C13_ConfirmSingleUse == [][C13_State' /\ C13_Step]_vars

\* a second confirmPasswordReset with the token of a successful one
C13_Witness ==
    /\ response.op = "confirm"
    /\ "confirmed" \in response.before
    /\ response.result.error = "BadRequestException"

\* C14: a reset token authorizes one password change.  Of the
\* confirmPasswordReset requests that carry one token, also concurrent ones
\* with different new passwords, at most one returns the success message
\* and at most one performs the UPDATE of the password hash.
C14_Step ==
    /\ Completion /\ response'.op = "confirm" /\ response'.result = PasswordReset =>
          \A e \in log : ~(e.event = "confirmed" /\ e.token = response'.token)
    /\ Progress /\ Progressing.op = "confirm" /\ Progressing.pc = "update" =>
          /\ \A e \in log : ~(e.event = "confirmed" /\ e.token = Progressing.token)
          /\ \A q \in Requests :
                ~(q.op = "confirm" /\ q.token = Progressing.token /\ q.pc = "delete")

\* C14: no token is confirmed twice and no token updates a hash twice.
C14_OnePasswordChange == [][C14_Step]_vars

\* C15: validatePasswordResetToken(k) returns valid exactly when the reset
\* ledger holds a row with token k whose expiry has not passed.  For an
\* unknown k it answers 'Invalid reset token', for a live k it answers valid,
\* and in both cases it changes no table; for a k found expired it goes on to
\* delete the row of k and answers 'Reset token has expired'.
C15_Step ==
    /\ Arrival /\ Arrived.op = "validate" =>
          LET q == Arrived
              rows == { row \in password_reset_tokens : row.token = q.token }
          IN /\ UNCHANGED <<users, refresh_tokens, password_reset_tokens>>
             /\ IF rows = {}
                THEN q.pc = "done" /\ q.result = InvalidResetToken
                ELSE IF \E row \in rows : row.expires_at < now
                THEN q.pc = "delete" /\ BagIn(q, inflight')
                ELSE q.pc = "done" /\ q.result = Valid
    /\ Completion /\ response'.op = "validate" =>
          /\ response'.result = ResetTokenExpired
          /\ password_reset_tokens' =
                { row \in password_reset_tokens : row.token # response'.token }
          /\ UNCHANGED <<users, refresh_tokens>>

\* C15: every validatePasswordResetToken answers by the row of its token and
\* changes the ledger only to delete a row it found expired.
C15_ValidateByLedger == [][C15_Step]_vars

\* a validatePasswordResetToken that found its token expired and deleted it
C15_Witness ==
    /\ response.op = "validate"
    /\ response.result = ResetTokenExpired
    /\ "mailed" \in response.before
    /\ SelectPasswordResetTokens(response.token) = {}

\* C16: confirmPasswordReset with a token that is unknown or expired fails
\* with BadRequest carrying the reason validatePasswordResetToken gives for
\* that token ('Invalid reset token', 'Reset token has expired') and leaves
\* every password hash unchanged.
C16_Step ==
    /\ Arrival /\ Arrived.op = "confirm" =>
          LET q == Arrived
              rows == { row \in password_reset_tokens : row.token = q.token }
          IN /\ users' = users
             /\ rows = {} =>
                   /\ q.pc = "done"
                   /\ q.result = BadRequestException(InvalidResetToken.message.value)
             /\ (\E row \in rows : row.expires_at < now) =>
                   q.pc = "expired" /\ BagIn(q, inflight')
    /\ Completion /\ Progressing.op = "confirm" /\ Progressing.pc = "expired" =>
          /\ response'.result = BadRequestException(ResetTokenExpired.message.value)
          /\ users' = users

\* C16: every confirmPasswordReset of an unknown or expired token fails with
\* the reason of the validation and changes no password hash.
C16_ConfirmInvalidToken == [][C16_Step]_vars

\* a confirmPasswordReset refused because its token had expired
C16_Witness ==
    /\ response.op = "confirm"
    /\ "mailed" \in response.before
    /\ response.result = BadRequestException("Reset token has expired")
    /\ \A u \in users : u.password_hash.of = (IF u.id = 1 THEN "secret1" ELSE "secret2")

\* C17: requestPasswordReset never reveals whether an email is registered.
\* Whenever it answers, for a registered email, for an unregistered one, or
\* after a store query or the notification failed, it answers the one
\* generic success message; for an unregistered email it answers on arrival
\* and leaves the reset ledger unchanged.
C17_Step ==
    /\ Arrival /\ Arrived.op = "requestReset" =>
          /\ Arrived.pc = "done" => Arrived.result = ResetRequested
          /\ ~Stored(Arrived.email) =>
                /\ Arrived.pc = "done"
                /\ password_reset_tokens' = password_reset_tokens
    /\ Completion /\ Progressing.op = "requestReset" =>
          response'.result = ResetRequested

\* C17: every answer of requestPasswordReset is the generic message.
C17_ResetRequestHidesExistence == [][C17_Step]_vars

\* a requestPasswordReset for a registered email answered after its INSERT
\* or its notification had failed
C17_Witness ==
    /\ response.op = "requestReset"
    /\ response.user.id # 0
    /\ response.refreshToken # 0
    /\ MailedEvents(response.refreshToken) = {}
    /\ response.result = ResetRequested

\* the guard lets the token of the request through to validateUser, as the
\* user userId
Accepted(q, userId) == q.pc = "validateUser" /\ q.user.id = userId /\ BagIn(q, inflight')

InvalidAccessToken == UnauthorizedException("Invalid access token")

Rejected(q) == q.pc = "done" /\ q.result = InvalidAccessToken

\* C18 as claimed: an access token issued by generateAccessToken(u) at time
\* t0 is accepted, as u, at every time before t0 + jwtExpiresIn and rejected
\* at every time after it; a token signed with another secret is rejected
\* at every time.
C18_Claimed_Step ==
    Arrival /\ Arrived.op = "me" =>
        /\ \A j \in jwts : j.token = Arrived.accessToken =>
              /\ DateNow < j.issuedAt + 1000 * jwtExpiresIn => Accepted(Arrived, j.userId)
              /\ DateNow > j.issuedAt + 1000 * jwtExpiresIn => Rejected(Arrived)
        /\ Arrived.accessToken.key \notin {jwtSecret, ""} => Rejected(Arrived)

\* C18 as claimed: every access token is accepted until its time to live has
\* elapsed since its issue, and rejected after.
C18_Claimed == [][C18_Claimed_Step]_vars

\* C18, amended: with s0 the whole second of the time of issue, the token is
\* accepted, as u, at every time before s0 + jwtExpiresIn and rejected at
\* every time from s0 + jwtExpiresIn on; a token signed with another secret
\* is rejected at every time.
C18_Step ==
    Arrival /\ Arrived.op = "me" =>
        /\ \A j \in jwts : j.token = Arrived.accessToken =>
              LET s0 == j.issuedAt \div 1000
              IN /\ DateNow < 1000 * (s0 + jwtExpiresIn) => Accepted(Arrived, j.userId)
                 /\ DateNow >= 1000 * (s0 + jwtExpiresIn) => Rejected(Arrived)
        /\ Arrived.accessToken.key \notin {jwtSecret, ""} => Rejected(Arrived)

\* C18, amended: every access token is accepted until the whole second of
\* its issue plus its time to live, and rejected from then on.
C18_AccessTokenLifetime == [][C18_Step]_vars

\* an access token issued in the middle of a second is rejected less than
\* its time to live after its issue
C18_Witness ==
    /\ response.op = "me"
    /\ response.result = InvalidAccessToken
    /\ \E j \in jwts :
          /\ j.token = response.accessToken
          /\ j.issuedAt % 1000 # 0
          /\ response.at = j.token.exp
          /\ DateNow < j.issuedAt + 1000 * jwtExpiresIn

\* C19: access-token verification collapses every failure into one result.
\* For a token that is malformed or signed with another secret, expired, of
\* a type other than 'access', or whose subject does not parse to a positive
\* integer, extractUserIdFromToken returns null and the guard answers
\* Unauthorized 'Invalid access token', the same for all of these cases.
C19_Step ==
    Arrival /\ Arrived.op = "me" /\ Arrived.accessToken # NoJwt =>
        LET token == Arrived.accessToken
        IN \/ token.key # jwtSecret
           \/ now >= token.exp
           \/ token.type # "access"
           \/ parseInt(token.sub) <= 0
           => /\ extractUserIdFromToken(token) = Null
              /\ Rejected(Arrived)

\* C19: every request whose access token fails verification is answered
\* Unauthorized 'Invalid access token'.
C19_OneVerificationFailure == [][C19_Step]_vars

\* a request refused for a token of the signing secret that is of another
\* type, after one refused for having expired or for its subject
C19_Witness ==
    /\ response.op = "me"
    /\ response.result = InvalidAccessToken
    /\ response.accessToken.key = jwtSecret
    /\ response.accessToken.type = "refresh"
    /\ response.at < response.accessToken.exp

\* C20: a cryptographically valid access token whose subject no longer
\* corresponds to any users row is rejected by the guard with
\* UnauthorizedException, never with a 404 or a 500: the guard's look-up of
\* the user that finds no row ends the request with UnauthorizedException.
C20_Step ==
    \A q \in BagToSet(inflight) :
        /\ q.op = "me"
        /\ q.pc = "validateUser"
        /\ GuardValidateUser(q)
        /\ \A u \in users : u.id # q.user.id
        => response'.result.error = "UnauthorizedException"

\* C20: a valid token for a user that no longer exists is answered
\* Unauthorized.
C20_VanishedUserUnauthorized == [][C20_Step]_vars

\* C21: the guard admits a request only if its Authorization header has the
\* scheme Bearer, its token verified as an unexpired access token when the
\* request came in, and the subject of the token is the id of a user of the
\* store, and then the user attached to the request is that user; a request
\* without the header or with another scheme is answered Unauthorized
\* 'Access token is required' at once, before any verification or look-up.
C21_Step ==
    /\ Completion /\ response'.op = "me" /\ response'.result.error = "" =>
          LET token == response'.accessToken
          IN /\ response'.password = "Bearer"
             /\ token.key = jwtSecret
             /\ token.type = "access"
             /\ response'.at < token.exp
             /\ \E u \in users :
                   /\ u.id = parseInt(token.sub)
                   /\ response'.result.user = UserOf(u)
    /\ Arrival /\ Arrived.op = "me" /\ Arrived.password # "Bearer" =>
          /\ Arrived.pc = "done"
          /\ Arrived.result = UnauthorizedException("Access token is required")

\* C21: only a Bearer access token that verifies and names a user of the
\* store is admitted, as that user.
C21_GuardAdmission == [][C21_Step]_vars

\* the guard has admitted a request with a Bearer token as user 1
C21_Witness ==
    /\ response.op = "me"
    /\ response.result.error = ""
    /\ response.result.user.id = 1
    /\ response.password = "Bearer"

\* the product operations
ProductOps ==
    {"createProduct", "findAllProducts", "findOneProduct", "updateProduct", "removeProduct"}

\* the header is a Bearer access token that verifies and names a user of the
\* store: the user id AuthGuard would attach, Null when it would refuse
Authenticated(header) ==
    LET userId == extractUserIdFromToken(extractTokenFromHeader(header))
    IN IF \E u \in users : u.id = userId THEN userId ELSE Null

\* C22: every product endpoint (create, list, get by id, update, delete)
\* answers a request that carries no valid Bearer access token with
\* Unauthorized, at once and without running any of its queries.
C22_Step ==
    Arrival /\ Arrived.op \in ProductOps /\ Authenticated(Arrived.authorization) = Null =>
        /\ Arrived.pc = "done"
        /\ Arrived.result.error = "UnauthorizedException"

\* C22: no product operation runs for an unauthenticated caller.
C22_ProductsRequireAuthentication == [][C22_Step]_vars

\* the request that takes the step
Acting ==
    IF Arrival THEN Arrived ELSE IF Completion THEN response' ELSE Progressing

\* C23: a step of a product request made by the authenticated user A inserts,
\* changes and deletes only products whose owner is A, and the products in
\* its response are all owned by A.
C23_Step ==
    (Arrival \/ Completion \/ Progress) /\ Acting.op \in ProductOps =>
        LET A == Authenticated(Acting.authorization)
        IN A # Null =>
              /\ \A row \in (products' \ products) \cup (products \ products') :
                    row.user_id = A
              /\ Acting.pc = "done" => \A product \in Acting.result.products : product.userId = A

\* C23: no product request of a user returns or changes a product of
\* another user.
C23_UserIsolation == [][C23_Step]_vars

\* the access token handed out together with the refresh token of the
\* session
SessionAccessToken == (CHOOSE j \in jwts : TRUE).token

\* C24: once logout(SessionToken) has returned, the access token issued
\* together with it still passes verifyAccessToken until its own expiry, and
\* a request that presents it to the guard before then is admitted as its
\* user; the refresh token is dead: refreshToken(SessionToken) is answered
\* Unauthorized.
C24_Step ==
    LoggedOut(SessionToken) \in log =>
        /\ now < SessionAccessToken.exp => verifyAccessToken(SessionAccessToken) = SessionAccessToken
        /\ Arrival /\ Arrived.op = "me" /\ Arrived.password = "Bearer"
              /\ Arrived.accessToken = SessionAccessToken /\ now < SessionAccessToken.exp
              => Accepted(Arrived, 1)
        /\ Completion /\ response'.op = "me" /\ response'.password = "Bearer"
              /\ response'.accessToken = SessionAccessToken
              /\ response'.at < SessionAccessToken.exp
              => response'.result = Response("", "", UserOf(CHOOSE u \in users : u.id = 1), NoJwt, 0)
        /\ Arrival /\ Arrived.op = "refresh" /\ Arrived.token = SessionToken
              => Arrived.pc = "done" /\ Arrived.result = InvalidRefreshToken

\* C24: logout kills the refresh token and leaves the access token of the
\* session valid until it expires.
C24_LogoutKeepsAccessToken == [][C24_Step]_vars

\* the guard has admitted a request that came in with the access token of
\* the session after logout(SessionToken) had returned
C24_Witness ==
    /\ response.op = "me"
    /\ response.result.error = ""
    /\ response.result.user.id = 1
    /\ response.accessToken = SessionAccessToken
    /\ "loggedOut" \in response.before
    /\ LoggedOut(SessionToken) \in log
    /\ LoggedOut(0) \notin log

\* C25: a login adds one row to the refresh-token ledger and removes none, so
\* that a user may hold several live refresh tokens; the only rows a step
\* removes are rows of the token presented to the refreshToken or logout
\* that takes the step, and every other row stays as it is.
C25_Step ==
    /\ Completion /\ response'.op = "login" /\ response'.result.error = "" =>
          /\ refresh_tokens \subseteq refresh_tokens'
          /\ refresh_tokens' \ refresh_tokens =
                { RefreshTokenRow(response'.result.user.id, response'.result.refreshToken,
                                  response'.expiresAt) }
    /\ \A row \in refresh_tokens \ refresh_tokens' :
          /\ Arrival \/ Completion
          /\ Acting.op \in {"refresh", "logout"}
          /\ row.token = Acting.token

\* C25: refreshToken(t) and logout(t) remove the row of t only, and login
\* removes none.
C25_OnlyPresentedTokenRemoved == [][C25_Step]_vars

\* logout(t) has removed the row of t while its user holds another refresh
\* token that is still live
C25_Witness ==
    /\ response.op = "logout"
    /\ response.rowCount = 1
    /\ \E e \in IssuedEvents(response.token) :
          \E row \in refresh_tokens :
              /\ row.user_id = e.userId
              /\ row.token # response.token
              /\ row.expires_at > now

\* a request is answered in this step: response' is that request
Answered == Completion \/ (Arrival /\ Arrived.pc = "done")

\* C26: when signup answers an error (Conflict or its generic failure), the
\* call has left no users row of its own: the user it inserted, if it got
\* that far, is not in the table.
C26_Step ==
    Answered /\ response'.op = "signup" /\ response'.result.error # "" =>
        \A u \in users' : u.id # response'.user.id

\* C26: a signup that fails leaves no user behind.
C26_FailedSignupCreatesNoUser == [][C26_Step]_vars

\* C27: when refreshToken(t) answers an error (Unauthorized or its generic
\* failure), the ledger holds no refresh token that this call inserted, and
\* the step that answers removes no row of t.
C27_Step ==
    Answered /\ response'.op = "refresh" /\ response'.result.error # "" =>
        /\ \A row \in refresh_tokens' : row.token # response'.refreshToken
        /\ \A row \in refresh_tokens : row.token = response'.token => row \in refresh_tokens'

\* C27: a refreshToken that fails leaves the refresh-token ledger as it was.
C27_FailedRefreshKeepsLedger == [][C27_Step]_vars

\* C28: when confirmPasswordReset returns its success message for user u,
\* the reset ledger holds no reset token of u, whatever requests ran beside
\* it.
C28_Step ==
    Completion /\ response'.op = "confirm" /\ response'.result = PasswordReset =>
        \A row \in password_reset_tokens' : row.user_id # response'.user.id

\* C28: a successful confirmPasswordReset leaves its user without a reset
\* token.
C28_NoResetTokenAfterConfirm == [][C28_Step]_vars

\* C29: the steps of a confirmPasswordReset for user u change no password hash
\* but that of u, remove no reset token but the presented one, and leave the
\* refresh-token ledger as it is, so that a refresh token issued to u before
\* the reset is still live afterwards.
C29_Step ==
    /\ (Arrival \/ Completion \/ Progress) /\ Acting.op = "confirm" =>
        /\ refresh_tokens' = refresh_tokens
        /\ \A u \in users : u \in users' \/ u.id = Acting.user.id
        /\ \A u \in users : \E v \in users' :
              /\ v.id = u.id
              /\ [v EXCEPT !.password_hash = u.password_hash] = u
        /\ Cardinality(users') = Cardinality(users)
        /\ \A row \in password_reset_tokens \ password_reset_tokens' : row.token = Acting.token
        /\ password_reset_tokens' \subseteq password_reset_tokens
    /\ Arrival /\ Arrived.op = "refresh" /\ PresentedLive(Arrived)
          /\ (\E e \in log : e.event = "confirmed" /\ e.userId = Owner(Arrived.token))
          => Arrived.pc = "insert" /\ Arrived.user.id = Owner(Arrived.token)

\* C29: confirmPasswordReset changes the password hash of its user and the
\* row of its token, and nothing else.
C29_ConfirmFrame == [][C29_Step]_vars

\* the ledger holds a live refresh token of user userId
HoldsLiveRefreshToken(userId) ==
    \E row \in refresh_tokens : row.user_id = userId /\ row.expires_at > now

\* confirmPasswordReset has returned for user a: the hash of a is that of
\* the new password, the hash of b is the old one, and both still hold their
\* live refresh tokens
C29_Witness ==
    /\ response.op = "confirm"
    /\ response.result = PasswordReset
    /\ response.user.id = 1
    /\ \A u \in users :
          u.password_hash.of = (IF u.id = 1 THEN response.password ELSE "secret2")
    /\ HoldsLiveRefreshToken(1)
    /\ HoldsLiveRefreshToken(2)

\* C30: a start-up of the service empties the reset ledger and keeps users
\* and refresh tokens; afterwards validatePasswordResetToken and
\* confirmPasswordReset refuse every reset token that was in the ledger
\* before it as an invalid token, while a login with the password of a user
\* and a refreshToken with a live refresh token go on as before.
C30_Step ==
    /\ Restart =>
          /\ password_reset_tokens' = {}
          /\ users' = users
          /\ refresh_tokens' = refresh_tokens
    /\ Arrival /\ Arrived.op = "validate" /\ "dropped" \in Arrived.before =>
          Arrived.pc = "done" /\ Arrived.result = InvalidResetToken
    /\ Arrival /\ Arrived.op = "confirm" /\ "dropped" \in Arrived.before =>
          Arrived.pc = "done" /\ Arrived.result = ValidationFailure(InvalidResetToken)
    /\ Arrival /\ Arrived.op = "refresh" /\ Restarted \in log /\ PresentedLive(Arrived) =>
          Arrived.pc = "insert" /\ Arrived.user.id = Owner(Arrived.token)
    /\ Arrival /\ Arrived.op = "login" /\ Restarted \in log
          /\ (\E u \in users : /\ u.email = NormalizeEmail(Arrived.email)
                               /\ bcryptCompare(Arrived.password, u.password_hash))
          => Arrived.pc = "token"

\* C30: start-up drops the reset tokens and nothing else.
C30_StartupDropsResetTokens == [][C30_Step]_vars

\* validatePasswordResetToken has refused a token that was mailed and then
\* dropped by a start-up, while the users and their refresh tokens are
\* still in the store
C30_Witness ==
    /\ response.op = "validate"
    /\ {"mailed", "dropped"} \subseteq response.before
    /\ response.result = InvalidResetToken
    /\ Cardinality(users) = 2
    /\ HoldsLiveRefreshToken(1)
    /\ HoldsLiveRefreshToken(2)

====
